---- MODULE Spec2Model ----
(***************************************************************************)
(* Travel route recommendation: the enhanced route search                  *)
(* (EnhancedRouteSearchService), its cost estimator, combination generator,*)
(* scorer and weight-adjustment policy.                                    *)
(*                                                                         *)
(* Conventions of the model                                                *)
(*   - money is an integer number of won;                                  *)
(*   - a scoring weight w is held as the integer 100*w (0.45 is 45);       *)
(*   - a score is an exact fraction [num, den] of two large naturals;      *)
(*   - an instant is a number of minutes counted from local midnight of    *)
(*     the request's start date (Date.toISOString / new Date(iso) keep     *)
(*     the millisecond value, so the round trip keeps the minute count);   *)
(*   - a rating r is held as the integer 70*r, so that both Google's       *)
(*     tenths and OpenTripMap's rate/7*5 are exact.                        *)
(***************************************************************************)
EXTENDS Integers, Sequences, FiniteSets, TLC

VARIABLES
    service,         \* the search service this deployment runs
    pc,              \* position of the running search
    hasKey,          \* hasGoogleMapsKey(): a Google Maps key is configured
    request,         \* the TravelRequest of the running search
    geo,             \* the two smartGeocode lookups of Promise.all
    routeInfo,       \* result of smartRouteCalculation
    attractions,     \* result of smartAttractionSearch
    iterations,      \* search(): let iterations
    weights,         \* search(): let weights
    bestCandidates,  \* search(): let bestCandidates
    lastCycle,       \* what the last executed cycle did (observation)
    result,          \* the SearchResult returned, or NoResult
    cache,           \* globalCache: key -> entry
    now,             \* Date.now(), in milliseconds
    searches,        \* number of search() calls started so far
    args,            \* inputs of the last pure-function application
    ret              \* its return value

vars == <<service, pc, hasKey, request, geo, routeInfo, attractions, iterations, weights,
          bestCandidates, lastCycle, result, cache, now, searches, args, ret>>


-----------------------------------------------------------------------------
(* Generic helpers *)

Min(a, b) == IF a <= b THEN a ELSE b
Max(a, b) == IF a >= b THEN a ELSE b

\* Math.round on a non-negative fraction num/den: floor(x + 0.5)
Round(num, den) == (2 * num + den) \div (2 * den)

RECURSIVE SumSeq(_)
SumSeq(s) == IF s = <<>> THEN 0 ELSE Head(s) + SumSeq(Tail(s))

\* Array.prototype.slice(0, n)
Slice(s, n) == SubSeq(s, 1, Min(Len(s), Max(n, 0)))

RECURSIVE Flatten(_)
Flatten(ss) == IF ss = <<>> THEN <<>> ELSE Head(ss) \o Flatten(Tail(ss))

\* a function on 1..n written out as the tuple of its values
AsSeq(f) == f \o <<>>

SeqMap(Op(_), s) == AsSeq([i \in 1..Len(s) |-> Op(s[i])])

NoResult == [kind |-> "none"]
NoValue == [kind |-> "null"]

-----------------------------------------------------------------------------
(* Exact arithmetic on large naturals, for the scores (a double holds the   *)
(* products that a 32-bit integer does not).  A natural is the sequence of  *)
(* its base-10000 digits, lowest first, without high zeros; zero is <<>>.   *)

BigBase == 10000

RECURSIVE BigOf(_)
BigOf(n) == IF n = 0 THEN <<>> ELSE <<n % BigBase>> \o BigOf(n \div BigBase)

RECURSIVE BigTrim(_)
BigTrim(a) ==
    IF a = <<>> THEN <<>>
    ELSE IF a[Len(a)] = 0 THEN BigTrim(SubSeq(a, 1, Len(a) - 1))
    ELSE a

RECURSIVE BigAddC(_, _, _)
BigAddC(a, b, c) ==
    IF a = <<>> /\ b = <<>> THEN (IF c = 0 THEN <<>> ELSE <<c>>)
    ELSE LET x == IF a = <<>> THEN 0 ELSE Head(a)
             y == IF b = <<>> THEN 0 ELSE Head(b)
             t == x + y + c
         IN  <<t % BigBase>> \o
             BigAddC(IF a = <<>> THEN <<>> ELSE Tail(a),
                     IF b = <<>> THEN <<>> ELSE Tail(b), t \div BigBase)

BigAdd(a, b) == BigTrim(BigAddC(a, b, 0))

\* a - b for a >= b
RECURSIVE BigSubC(_, _, _)
BigSubC(a, b, c) ==
    IF a = <<>> THEN <<>>
    ELSE LET y == IF b = <<>> THEN 0 ELSE Head(b)
             t == Head(a) - y - c
         IN  <<(t + BigBase) % BigBase>> \o
             BigSubC(Tail(a), IF b = <<>> THEN <<>> ELSE Tail(b),
                     IF t < 0 THEN 1 ELSE 0)

BigSub(a, b) == BigTrim(BigSubC(a, b, 0))

\* a * m for a natural m < 200000
RECURSIVE BigMulC(_, _, _)
BigMulC(a, m, c) ==
    IF a = <<>> THEN BigOf(c)
    ELSE LET t == Head(a) * m + c
         IN  <<t % BigBase>> \o BigMulC(Tail(a), m, t \div BigBase)

BigMulSmall(a, m) == BigTrim(BigMulC(a, m, 0))

RECURSIVE BigMul(_, _)
BigMul(a, b) ==
    IF b = <<>> \/ a = <<>> THEN <<>>
    ELSE BigAdd(BigMulSmall(a, Head(b)), BigTrim(<<0>> \o BigMul(a, Tail(b))))

\* -1, 0 or 1 as a < b, a = b, a > b
RECURSIVE BigCmp(_, _)
BigCmp(a, b) ==
    IF Len(a) # Len(b) THEN (IF Len(a) < Len(b) THEN -1 ELSE 1)
    ELSE IF a = <<>> THEN 0
    ELSE IF a[Len(a)] # b[Len(b)] THEN (IF a[Len(a)] < b[Len(b)] THEN -1 ELSE 1)
    ELSE BigCmp(SubSeq(a, 1, Len(a) - 1), SubSeq(b, 1, Len(b) - 1))

\* a signed large number is [pos, neg], standing for pos - neg
SignedZero == [pos |-> <<>>, neg |-> <<>>]

\* s + k * x, for an integer k with |k| < 200000 and a large natural x
SignedAddTerm(s, k, x) ==
    IF k >= 0 THEN [s EXCEPT !.pos = BigAdd(s.pos, BigMulSmall(x, k))]
    ELSE [s EXCEPT !.neg = BigAdd(s.neg, BigMulSmall(x, 0 - k))]

\* variant of ClampUnit without Math.min(1, ...)
ClampUnit_NoUpper(s, den) ==
    IF BigCmp(s.pos, s.neg) <= 0 THEN [num |-> <<>>, den |-> den]
    ELSE [num |-> BigSub(s.pos, s.neg), den |-> den]

\* Math.max(0, Math.min(1, s / den)) as a fraction over den
ClampUnit(s, den) ==
    IF BigCmp(s.pos, s.neg) <= 0 THEN [num |-> <<>>, den |-> den]
    ELSE LET n == BigSub(s.pos, s.neg)
         IN  IF BigCmp(n, den) > 0 THEN [num |-> den, den |-> den]
             ELSE [num |-> n, den |-> den]

\* a >= b and a > b on fractions with positive denominators
FracGE(a, b) == BigCmp(BigMul(a.num, b.den), BigMul(b.num, a.den)) >= 0
FracGT(a, b) == BigCmp(BigMul(a.num, b.den), BigMul(b.num, a.den)) > 0

ZeroScore == [num |-> <<>>, den |-> <<1>>]

-----------------------------------------------------------------------------
(* Program constants *)

MAX_ITERATIONS == 4
TOP_N_CANDIDATES == 8
\* MIN_SCORE_THRESHOLD = 0.55, as the fraction 55/100
MIN_SCORE_THRESHOLD == [num |-> <<55>>, den |-> <<100>>]

DefaultTTL == 3600000

initialWeights == [cost |-> 45, time |-> 30, preference |-> 20, fatigue |-> 5]

-----------------------------------------------------------------------------
(* costCalculator.ts *)

TransportModes == {"flight", "train", "bus", "car"}

COST_TRANSPORT(mode) ==
    CASE mode = "flight" -> 150
      [] mode = "train" -> 80
      [] mode = "bus" -> 50
      [] mode = "car" -> 100

COST_SPEED(mode) ==
    CASE mode = "flight" -> 500
      [] mode = "train" -> 200
      [] mode = "bus" -> 80
      [] mode = "car" -> 90

COST_ACCOMMODATION(type) ==
    CASE type = "budget" -> 50000
      [] type = "standard" -> 80000
      [] type = "premium" -> 150000

ATTRACTION_FEE(tier) ==
    CASE tier = "free" -> 0
      [] tier = "cheap" -> 5000
      [] tier = "standard" -> 10000
      [] tier = "premium" -> 20000

\* the distance discount, in percent
distanceDiscount(distanceKm) ==
    IF distanceKm > 500 THEN 85
    ELSE IF distanceKm > 300 THEN 90
    ELSE IF distanceKm > 100 THEN 95
    ELSE 100

calculateTransportCost(distanceKm, mode) ==
    LET baseCost100 == distanceKm * COST_TRANSPORT(mode) * distanceDiscount(distanceKm)
        airportFee == IF mode = "flight" THEN 15000 ELSE 0
    IN  Round(baseCost100 + airportFee * 100, 100)

calculateTransportDuration(distanceKm, mode) ==
    LET waitingTime == CASE mode = "flight" -> 120
                         [] mode = "train" -> 30
                         [] mode = "bus" -> 20
                         [] OTHER -> 0
    IN  Round(distanceKm * 60 + waitingTime * COST_SPEED(mode), COST_SPEED(mode))

calculateAccommodationCost(type, nights, isPopularDestination) ==
    LET popularityMultiplier10 == IF isPopularDestination THEN 13 ELSE 10
        longStayDiscount100 == IF nights >= 3 THEN 95 ELSE 100
    IN  Round(COST_ACCOMMODATION(type) * nights * popularityMultiplier10
                  * longStayDiscount100, 1000)

recommendTransportMode(distanceKm) ==
    (IF distanceKm >= 300 THEN <<"flight">> ELSE <<>>) \o
    (IF distanceKm >= 50 THEN <<"train">> ELSE <<>>) \o
    (IF distanceKm >= 30 THEN <<"bus">> ELSE <<>>) \o
    (IF distanceKm <= 500 THEN <<"car">> ELSE <<>>)

-----------------------------------------------------------------------------
(* Strings.  Place names, tags and preference tags are strings of a small  *)
(* vocabulary; String.toLowerCase and String.includes are tabulated on it. *)
(* Korean words of the source are written romanised:                       *)
(*   gaseongbi, kkalkkeum, chinjeol / pyeonan, josik poham, waipai /       *)
(*   reoksyeori, osyeonbyu, seupa  (accommodation tags)                    *)
(*   yeoksa (history), Busan (a popular city), CityA, CityB                *)

toLowerCase(s) == IF s = "Museum" THEN "museum" ELSE s

ProperSubstrings ==
    { <<"museums", "museum">>,
      <<"history_museums", "history">>,
      <<"history_museums", "museum">>,
      <<"history_museums", "museums">>,
      <<"Busan Haeundae", "Busan">> }

\* hay.includes(needle)
includes(hay, needle) == hay = needle \/ <<hay, needle>> \in ProperSubstrings

\* array.some(x => P(x))
SeqSome(s, P(_)) == \E i \in 1..Len(s) : P(s[i])

\* array.filter(x => P(x)).length
SeqCount(s, P(_)) == Cardinality({i \in 1..Len(s) : P(s[i])})

\* a stable sort of s into descending order; GT(a, b) is "a sorts before b"
StableSort(s, GT(_, _)) ==
    LET items == AsSeq(s)
        rank == AsSeq([i \in 1..Len(items) |->
                    1 + Cardinality({j \in 1..Len(items) :
                           GT(items[j], items[i])
                           \/ (~GT(items[i], items[j]) /\ j < i)})])
    IN  AsSeq([k \in 1..Len(items) |->
                 items[CHOOSE i \in 1..Len(items) : rank[i] = k]])

-----------------------------------------------------------------------------
(* EnhancedRouteSearchService: option generation *)

departureHours == <<7, 10, 14, 17>>

generateSmartTransportOptions(from, to, distance, durationMinutes) ==
    LET modes == recommendTransportMode(distance)
        option(mode, hour) ==
            LET cost == calculateTransportCost(distance, mode)
                duration == IF durationMinutes > 0 THEN durationMinutes
                            ELSE calculateTransportDuration(distance, mode)
                depTime == hour * 60
            IN  [type |-> mode, from |-> from, to |-> to, cost |-> cost,
                 duration |-> duration, departureTime |-> depTime,
                 arrivalTime |-> depTime + duration]
    IN  Flatten([m \in 1..Len(modes) |->
                    [h \in 1..Len(departureHours) |-> option(modes[m], departureHours[h])]])

accommodationTypes == <<"budget", "standard", "premium">>

accommodationTags(type) ==
    CASE type = "budget" -> <<"gaseongbi", "kkalkkeum", "chinjeol">>
      [] type = "standard" -> <<"pyeonan", "josik poham", "waipai">>
      [] type = "premium" -> <<"reoksyeori", "osyeonbyu", "seupa">>

\* ratings 3.8, 4.3, 4.8 as 70 * rating
accommodationRating(type) ==
    CASE type = "budget" -> 266
      [] type = "standard" -> 301
      [] type = "premium" -> 336

popularCities == {"Busan"}

generateAccommodationOptions(location, duration, budget) ==
    LET isPopular == \E city \in popularCities : includes(location, city)
        option(type) ==
            LET totalCost == calculateAccommodationCost(type, duration, isPopular)
            IN  IF 2 * totalCost > budget THEN <<>>
                ELSE << [name |-> <<location, type>>, location |-> location,
                         costPerNight |-> Round(totalCost, duration),
                         rating |-> accommodationRating(type),
                         tags |-> accommodationTags(type)] >>
    IN  Flatten([t \in 1..Len(accommodationTypes) |-> option(accommodationTypes[t])])

freeCategories == {"parks", "natural", "beaches", "view_points", "squares"}
cheapCategories == {"churches", "monuments", "memorials"}
premiumCategories == {"amusements", "theatres", "zoos", "aquariums"}

\* kinds is the list that the caller joins with ','; no category holds a comma,
\* so the joined string includes a category iff one of the kinds does
estimateAttractionFee(kinds, rate) ==
    LET hasCat(cats) == \E cat \in cats :
            \E i \in 1..Len(kinds) : includes(toLowerCase(kinds[i]), cat)
    IN  IF hasCat(freeCategories) THEN 0
        ELSE IF hasCat(cheapCategories) THEN ATTRACTION_FEE("cheap")
        ELSE IF hasCat(premiumCategories) THEN ATTRACTION_FEE("premium")
        ELSE IF rate >= 5 * 70 THEN ATTRACTION_FEE("premium")
        ELSE IF rate >= 3 * 70 THEN ATTRACTION_FEE("standard")
        ELSE ATTRACTION_FEE("cheap")

selectBestAttractions(attrs, preferences, count) ==
    LET matchScore(attr) ==
            Cardinality({p \in 1..Len(preferences) :
                \E i \in 1..Len(attr.types) :
                    includes(toLowerCase(attr.types[i]), toLowerCase(preferences[p]))})
        \* totalScore = matchScore * 0.6 + rating * 0.4, times 350
        totalScore(attr) == matchScore(attr) * 210 + attr.rating * 2
        better(a, b) == totalScore(a) > totalScore(b)
        scored == StableSort(attrs, better)
        option(item) ==
            [name |-> item.name, location |-> item.location,
             entranceFee |-> estimateAttractionFee(item.types, item.rating),
             duration |-> 90,
             tags |-> Slice(item.types, 3),
             rating |-> item.rating]
    IN  SeqMap(option, Slice(scored, count))

-----------------------------------------------------------------------------
(* EnhancedRouteSearchService: combination generator, scorer, weights *)

\* the minimum stay per trip day, in hours, and the budget tolerance 1.1 as 11/10
MinStayHoursPerDay == 12
BudgetTolerance10 == 11

\* variant of stayTooShort that compares the gap in minutes with the hours
stayTooShort_Unconverted(gapMinutes, duration) ==
    gapMinutes < duration * MinStayHoursPerDay

\* if (gap < request.duration * 12) continue, gap = milliseconds / 3600000
stayTooShort(gapMinutes, duration) ==
    gapMinutes < duration * MinStayHoursPerDay * 60

\* variant of overBudget that tolerates 20% instead of 10%
overBudget_Tolerance20(totalCost, budget) ==
    10 * totalCost > (BudgetTolerance10 + 1) * budget

\* if (totalCost > request.budget * 1.1) continue
overBudget(totalCost, budget) ==
    10 * totalCost > BudgetTolerance10 * budget

generateValidCombinations(transports, accommodations, attrs, req) ==
    LET maxTransport == Min(Len(transports), 6)
        maxAccommodation == Min(Len(accommodations), 3)
        candidate(i, j, k) ==
            LET outbound == transports[i]
                returnTrip == transports[j]
                accommodation == accommodations[k]
                \* the gap in minutes
                gap == returnTrip.departureTime - outbound.arrivalTime
                transportCost == outbound.cost + returnTrip.cost
                accommodationCost == accommodation.costPerNight * req.duration
                attractionsCost == SumSeq([a \in 1..Len(attrs) |-> attrs[a].entranceFee])
                totalCost == transportCost + accommodationCost + attractionsCost
                totalDuration == outbound.duration + returnTrip.duration
                                 + SumSeq([a \in 1..Len(attrs) |-> attrs[a].duration])
            IN  IF stayTooShort(gap, req.duration) THEN <<>>
                ELSE IF overBudget(totalCost, req.budget) THEN <<>>
                ELSE << [id |-> <<i - 1, j - 1, k - 1>>,
                         transports |-> <<outbound, returnTrip>>,
                         accommodations |-> <<accommodation>>,
                         attractions |-> Slice(attrs, Min(req.duration * 2, 6)),
                         totalCost |-> totalCost,
                         totalDuration |-> totalDuration,
                         score |-> ZeroScore,
                         breakdown |-> [transport |-> transportCost,
                                        accommodation |-> accommodationCost,
                                        attractions |-> attractionsCost,
                                        total |-> totalCost]] >>
    IN  Flatten([i \in 1..maxTransport |->
            Flatten([j \in 1..maxTransport |->
                Flatten([k \in 1..maxAccommodation |-> candidate(i, j, k)])])])

\* the preference score as a fraction of small integers
calculatePreferenceScore(candidate, preferences) ==
    IF Len(preferences) = 0 THEN [num |-> 1, den |-> 2]
    ELSE
        LET allTags == Flatten(SeqMap(LAMBDA a : a.tags, candidate.accommodations))
                       \o Flatten(SeqMap(LAMBDA a : a.tags, candidate.attractions))
            matchCount == Cardinality({t \in 1..Len(allTags) :
                \E p \in 1..Len(preferences) :
                    includes(toLowerCase(allTags[t]), toLowerCase(preferences[p]))})
        IN  IF Len(allTags) > 0
            THEN [num |-> Min(2 * matchCount, Len(allTags)), den |-> Len(allTags)]
            ELSE [num |-> 0, den |-> 1]

\* the composite score of one candidate, clamped to [0, 1]; every term is
\* brought to the denominator budget * 10 * pref.den * 100
candidateScore(candidate, req, w) ==
    LET B == BigOf(req.budget)
        pref == calculatePreferenceScore(candidate, req.preferences)
        \* costScore = max(0, 1 - totalCost / budget), times budget
        costNum == BigOf(Max(0, req.budget - candidate.totalCost))
        \* fatigueScore = 1 - legs / 10, times 10
        fatigueNum == 10 - Len(candidate.transports)
        \* timeScore = 0.7, times 10
        timeNum == 7
        den == BigMulSmall(B, 1000 * pref.den)
        sum == SignedAddTerm(
                 SignedAddTerm(
                   SignedAddTerm(
                     SignedAddTerm(SignedZero, w.cost * 10 * pref.den, costNum),
                     timeNum * w.time * pref.den, B),
                   pref.num * w.preference * 10, B),
                 fatigueNum * w.fatigue * pref.den, B)
    IN  ClampUnit(sum, den)

\* variant of scoreAndRank that scores and does not sort
scoreAndRank_Unsorted(candidates, req, w) ==
    AsSeq([i \in 1..Len(candidates) |->
        [candidates[i] EXCEPT !.score = candidateScore(candidates[i], req, w)]])

scoreAndRank(candidates, req, w) ==
    LET scored == AsSeq([i \in 1..Len(candidates) |->
                     [candidates[i] EXCEPT !.score = candidateScore(candidates[i], req, w)]])
        before(a, b) == FracGT(a.score, b.score)
    IN  StableSort(scored, before)

\* variant of relaxCostWeight without its floor of 0.3
relaxCostWeight_NoFloor(w) == [w EXCEPT !.cost = w.cost - 10]

\* weights.cost = Math.max(0.3, weights.cost - 0.1) of the zero-combination branch
relaxCostWeight(w) == [w EXCEPT !.cost = Max(30, w.cost - 10)]

\* variant of smartWeightAdjustment whose high-use branch has no ceiling
smartWeightAdjustment_NoCeiling(w, candidates, req, iteration) ==
    IF Len(candidates) = 0 THEN w
    ELSE IF 10 * candidates[1].totalCost > 9 * req.budget
    THEN [cost |-> w.cost + 8, time |-> w.time - 4,
          preference |-> w.preference - 4, fatigue |-> w.fatigue]
    ELSE IF 10 * candidates[1].totalCost < 6 * req.budget
    THEN [cost |-> Max(30, w.cost - 8), time |-> w.time,
          preference |-> Min(35, w.preference + 8), fatigue |-> w.fatigue]
    ELSE [cost |-> w.cost - 2, time |-> w.time,
          preference |-> w.preference + 2, fatigue |-> w.fatigue]

\* variant of smartWeightAdjustment whose high-use branch takes the whole
\* increase of 0.08 from each of time and preference
smartWeightAdjustment_FullShift(w, candidates, req, iteration) ==
    IF Len(candidates) = 0 THEN w
    ELSE IF 10 * candidates[1].totalCost > 9 * req.budget
    THEN [cost |-> Min(60, w.cost + 8), time |-> w.time - 8,
          preference |-> w.preference - 8, fatigue |-> w.fatigue]
    ELSE IF 10 * candidates[1].totalCost < 6 * req.budget
    THEN [cost |-> Max(30, w.cost - 8), time |-> w.time,
          preference |-> Min(35, w.preference + 8), fatigue |-> w.fatigue]
    ELSE [cost |-> w.cost - 2, time |-> w.time,
          preference |-> w.preference + 2, fatigue |-> w.fatigue]

smartWeightAdjustment(w, candidates, req, iteration) ==
    IF Len(candidates) = 0 THEN w
    ELSE
        LET topCandidate == candidates[1]
            \* budgetUsage = totalCost / budget, compared with 0.9 and 0.6
            over90 == 10 * topCandidate.totalCost > 9 * req.budget
            under60 == 10 * topCandidate.totalCost < 6 * req.budget
        IN  IF over90
            THEN [cost |-> Min(60, w.cost + 8), time |-> w.time - 4,
                  preference |-> w.preference - 4, fatigue |-> w.fatigue]
            ELSE IF under60
            THEN [cost |-> Max(30, w.cost - 8), time |-> w.time,
                  preference |-> Min(35, w.preference + 8), fatigue |-> w.fatigue]
            ELSE [cost |-> w.cost - 2, time |-> w.time,
                  preference |-> w.preference + 2, fatigue |-> w.fatigue]

-----------------------------------------------------------------------------
(* cache.ts: APICache, as used by the search *)

\* generateKey: the prefix and the JSON of the parameters; coordinates are
\* written by their display name, which determines them in this model
cacheKey(prefix, a, b) == [prefix |-> prefix, a |-> a, b |-> b]

\* variant of cacheGet without the expiry check
cacheGet_NoExpiry(c, key, t) ==
    IF key \notin DOMAIN c THEN <<NoValue, c>> ELSE <<c[key].data, c>>

\* APICache.get: <<value or NoValue, cache afterwards>>
cacheGet(c, key, t) ==
    IF key \notin DOMAIN c THEN <<NoValue, c>>
    ELSE IF t > c[key].expiresAt
    THEN <<NoValue, [k \in DOMAIN c \ {key} |-> c[k]]>>
    ELSE <<c[key].data, c>>

\* variant of cacheSet that keeps the entry a key already has (first writer
\* wins)
cacheSet_KeepFirst(c, key, data, ttl, t) ==
    IF key \in DOMAIN c THEN c
    ELSE [k \in DOMAIN c \cup {key} |->
             IF k = key
             THEN [data |-> data, timestamp |-> t,
                   expiresAt |-> t + (IF ttl = 0 THEN DefaultTTL ELSE ttl)]
             ELSE c[k]]

\* APICache.set
cacheSet(c, key, data, ttl, t) ==
    [k \in DOMAIN c \cup {key} |->
        IF k = key
        THEN [data |-> data, timestamp |-> t,
              \* now + (ttl || this.defaultTTL); an omitted ttl is written 0
              expiresAt |-> t + (IF ttl = 0 THEN DefaultTTL ELSE ttl)]
        ELSE c[k]]

\* key.startsWith(prefix), on the prefixes of the keys
startsWith(keyPrefix, prefix) ==
    keyPrefix = prefix \/ <<keyPrefix, prefix>> \in {<<"geocode", "geo">>}

\* APICache.clear: an omitted prefix is written ""
cacheClear(c, prefix) ==
    IF prefix # ""
    THEN LET keysToDelete == {k \in DOMAIN c : startsWith(k.prefix, prefix)}
         IN  [k \in DOMAIN c \ keysToDelete |-> c[k]]
    ELSE <<>>

\* APICache.cleanup
cacheCleanup(c, t) ==
    LET keysToDelete == {k \in DOMAIN c : t > c[k].expiresAt}
    IN  [k \in DOMAIN c \ keysToDelete |-> c[k]]

-----------------------------------------------------------------------------
(* External collaborators: what geocoding, routing and place services may  *)
(* answer.  The answers are inputs of the model.                           *)

Coordinates(address) ==
    CASE address = "CityA" -> [lat |-> 37, lon |-> 127, display_name |-> "CityA"]
      [] address = "CityB" -> [lat |-> 35, lon |-> 129, display_name |-> "CityB"]
      [] address = "Busan Haeundae" ->
            [lat |-> 35, lon |-> 129, display_name |-> "Busan Haeundae"]

\* calculateDistance (haversine, km), tabulated on the coordinates of the model
\* (on one parallel: 91 km for a degree of longitude at 35 N)
calculateDistance(lat1, lon1, lat2, lon2) ==
    IF lat1 = lat2 /\ lon1 = lon2 THEN 0
    ELSE IF lat1 = lat2
    THEN 91 * (IF lon1 >= lon2 THEN lon1 - lon2 ELSE lon2 - lon1)
    ELSE 300

\* answers of Google Directions / OpenRouteService: km and seconds
RouteAnswers ==
    { [distance |-> 300, duration |-> 12000],
      [distance |-> 20, duration |-> 0] }

\* variant of routeFetcher that asks OpenRouteService before Google Directions
routeFetcher_OrsFirst(start, end, google, ors) ==
    IF ors # NoValue
    THEN [distance |-> ors.distance, duration |-> Round(ors.duration, 60)]
    ELSE IF hasKey /\ google # NoValue
    THEN [distance |-> google.distance, duration |-> Round(google.duration, 60)]
    ELSE LET straightDistance == calculateDistance(start.lat, start.lon, end.lat, end.lon)
         IN  [distance |-> (straightDistance * 13) \div 10,
              duration |-> Round(straightDistance * 13 * 60, 800)]

\* the fetcher of smartRouteCalculation; google and ors are an answer or NoValue
routeFetcher(start, end, google, ors) ==
    IF hasKey /\ google # NoValue
    THEN [distance |-> google.distance, duration |-> Round(google.duration, 60)]
    ELSE IF ors # NoValue
    THEN [distance |-> ors.distance, duration |-> Round(ors.duration, 60)]
    ELSE LET straightDistance == calculateDistance(start.lat, start.lon, end.lat, end.lon)
         IN  [distance |-> (straightDistance * 13) \div 10,
              duration |-> Round(straightDistance * 13 * 60, 800)]

\* '역사' and '럭셔리' of mapPreferencesToGoogleTypes; other tags map to nothing
googleTypesOf(pref) ==
    CASE pref = "yeoksa" -> <<"museum", "church", "historical", "monument">>
      [] pref = "reoksyeori" -> <<"hotel", "spa">>
      [] OTHER -> <<>>

\* Array.from(new Set(...)): first occurrences, in insertion order
RECURSIVE Dedupe(_)
Dedupe(s) ==
    IF s = <<>> THEN <<>>
    ELSE LET rest == Dedupe(SubSeq(s, 1, Len(s) - 1))
         IN  IF \E i \in 1..Len(rest) : rest[i] = s[Len(s)] THEN rest
             ELSE Append(rest, s[Len(s)])

mapPreferencesToGoogleTypes(preferences) ==
    Dedupe(Flatten(SeqMap(googleTypesOf, preferences)))

\* Google places: rating is 70 * rating, 0 when the place has none
GooglePlaceLists ==
    { <<>>,
      << [name |-> "G1", vicinity |-> "v1", types |-> <<"museum", "history_museums">>,
          rating |-> 315],
         [name |-> "G2", vicinity |-> "v2", types |-> <<"church">>, rating |-> 210] >> }

\* OpenTripMap places: kinds already split at ','; rate 0 when absent
OtmPlaceLists ==
    { <<>>,
      << [name |-> "O1", point |-> "p1", kinds |-> <<"historic", "museums">>, rate |-> 7],
         [name |-> "O2", point |-> "p2", kinds |-> <<"parks">>, rate |-> 0],
         [name |-> "O3", point |-> "p3", kinds |-> <<"history_museums">>, rate |-> 3] >> }

\* the fetcher of smartAttractionSearch; googleAnswers holds one place list per
\* requested type, otmAnswer the OpenTripMap list
attractionFetcher(preferences, googleAnswers, otmAnswer) ==
    LET googleResults ==
            LET places == Flatten(googleAnswers)
                keep(place) == IF place.rating # 0 /\ place.rating >= 245
                               THEN << [name |-> place.name, location |-> place.vicinity,
                                        types |-> place.types, rating |-> place.rating] >>
                               ELSE <<>>
            IN  Flatten(SeqMap(keep, places))
        otmResults ==
            SeqMap(LAMBDA place :
                     [name |-> place.name, location |-> place.point,
                      types |-> place.kinds,
                      rating |-> (IF place.rate # 0 THEN place.rate ELSE 3) * 50],
                   otmAnswer)
    IN  IF hasKey /\ Len(googleResults) > 0 THEN googleResults ELSE otmResults

\* number of googlePlacesNearby calls the fetcher makes
googleTypeCount(preferences) ==
    IF hasKey THEN Len(Slice(mapPreferencesToGoogleTypes(preferences), 3)) ELSE 0

-----------------------------------------------------------------------------
(* Backend: RouteSearchService over the mock data.  Tags are romanised;
   ratings are written times 10 *)

Backend_MAX_ITERATIONS == 5
Backend_TOP_N_CANDIDATES == 5
\* MIN_SCORE_THRESHOLD = 0.6
Backend_MIN_SCORE_THRESHOLD == [num |-> <<6>>, den |-> <<10>>]

Backend_initialWeights == [cost |-> 50, time |-> 30, preference |-> 15, fatigue |-> 5]

\* departure and arrival in minutes from midnight of 2024-01-15
mockTransports ==
    << [type |-> "flight", from |-> "Gimpo", to |-> "Gimhae", cost |-> 89000,
        duration |-> 65, departureTime |-> 480, arrivalTime |-> 545],
       [type |-> "train", from |-> "Seoul", to |-> "Busan", cost |-> 59800,
        duration |-> 155, departureTime |-> 360, arrivalTime |-> 515],
       [type |-> "bus", from |-> "Seoul", to |-> "Busan", cost |-> 35000,
        duration |-> 240, departureTime |-> 420, arrivalTime |-> 660],
       [type |-> "bus", from |-> "Busan", to |-> "Gyeongju", cost |-> 12000,
        duration |-> 90, departureTime |-> 600, arrivalTime |-> 690],
       [type |-> "train", from |-> "Busan", to |-> "Gyeongju", cost |-> 18000,
        duration |-> 60, departureTime |-> 630, arrivalTime |-> 690] >>

mockAccommodations ==
    << [name |-> "Haeundae Ocean View Hotel", location |-> "Busan Haeundae",
        costPerNight |-> 120000, rating |-> 45,
        tags |-> <<"bada", "reoksyeori", "josikpoham">>],
       [name |-> "Busan Station Business Hotel", location |-> "Busan Junggu",
        costPerNight |-> 65000, rating |-> 40,
        tags |-> <<"jeopgeunseong", "gaseongbi">>],
       [name |-> "Gyeongju Hanok Guesthouse", location |-> "Gyeongju Hwangnamdong",
        costPerNight |-> 45000, rating |-> 47,
        tags |-> <<"yeoksa", "jeontong", "munhwa">>],
       [name |-> "Nampodong City Hotel", location |-> "Busan Junggu",
        costPerNight |-> 80000, rating |-> 42,
        tags |-> <<"matjip", "syoping", "yagyeong">>] >>

mockAttractions ==
    << [name |-> "Haeundae Beach", location |-> "Busan Haeundae", entranceFee |-> 0,
        duration |-> 120, tags |-> <<"bada", "jayeon", "sajin">>, rating |-> 46],
       [name |-> "Gamcheon Culture Village", location |-> "Busan Sahagu",
        entranceFee |-> 0, duration |-> 90,
        tags |-> <<"munhwa", "yesul", "sajin">>, rating |-> 45],
       [name |-> "Bulguksa", location |-> "Gyeongju", entranceFee |-> 6000,
        duration |-> 120, tags |-> <<"yeoksa", "munhwa", "sachal">>, rating |-> 48],
       [name |-> "Seokguram", location |-> "Gyeongju", entranceFee |-> 6000,
        duration |-> 90, tags |-> <<"yeoksa", "munhwa", "yunesko">>, rating |-> 47],
       [name |-> "Jagalchi Market", location |-> "Busan Junggu", entranceFee |-> 0,
        duration |-> 120, tags |-> <<"matjip", "haesanmul", "jeontongsijang">>,
        rating |-> 44],
       [name |-> "Cheomseongdae", location |-> "Gyeongju", entranceFee |-> 0,
        duration |-> 30, tags |-> <<"yeoksa", "cheonmun", "yagyeong">>,
        rating |-> 43] >>

fetchRawData(req) ==
    [transports |-> mockTransports, accommodations |-> mockAccommodations,
     attractions |-> mockAttractions]

\* Array.prototype.filter
SeqFilter(Keep(_), seq) ==
    LET kept == {i \in 1..Len(seq) : Keep(seq[i])}
        nth(k) == CHOOSE i \in kept : Cardinality({j \in kept : j < i}) = k - 1
    IN  AsSeq([k \in 1..Cardinality(kept) |-> seq[nth(k)]])

\* Array.prototype.includes on a list of strings
contains(list, x) == \E i \in 1..Len(list) : list[i] = x

\* cost <= budget * 0.4 and costPerNight <= budget * 0.3 / duration
filterByConstraints(data, req) ==
    [transports |->
        SeqFilter(LAMBDA t : 10 * t.cost <= 4 * req.budget, data.transports),
     accommodations |->
        SeqFilter(LAMBDA a : 10 * a.costPerNight * req.duration <= 3 * req.budget,
                  data.accommodations),
     attractions |-> data.attractions]

selectAttractionsByPreference(attrs, preferences, count) ==
    LET matchScore(attr) ==
            Cardinality({t \in 1..Len(attr.tags) : contains(preferences, attr.tags[t])})
        \* b.matchScore - a.matchScore || b.attraction.rating - a.attraction.rating
        before(a, b) ==
            \/ matchScore(a) > matchScore(b)
            \/ matchScore(a) = matchScore(b) /\ a.rating > b.rating
    IN  Slice(StableSort(attrs, before), count)

generateCombinations(filtered, req) ==
    LET transports == Slice(filtered.transports, 3)
        accommodations == Slice(filtered.accommodations, 3)
        selectedAttractions ==
            selectAttractionsByPreference(filtered.attractions, req.preferences,
                                          Min(req.duration * 2, 4))
    IN  Flatten([t \in 1..Len(transports) |->
            [a \in 1..Len(accommodations) |->
                [index |-> <<t - 1, a - 1>>,
                 transports |-> <<transports[t]>>,
                 accommodations |-> <<accommodations[a]>>,
                 attractions |-> selectedAttractions]]])

\* the id, a random string in the code, is the position of the combination
simulateCostAndTime(combo, req) ==
    LET transportCost == SumSeq([t \in 1..Len(combo.transports) |-> combo.transports[t].cost])
        accommodationCost ==
            SumSeq([a \in 1..Len(combo.accommodations) |->
                       combo.accommodations[a].costPerNight * req.duration])
        attractionCost ==
            SumSeq([a \in 1..Len(combo.attractions) |-> combo.attractions[a].entranceFee])
        totalCost == transportCost + accommodationCost + attractionCost
        totalDuration ==
            SumSeq([t \in 1..Len(combo.transports) |-> combo.transports[t].duration])
            + SumSeq([a \in 1..Len(combo.attractions) |-> combo.attractions[a].duration])
    IN  [id |-> combo.index,
         transports |-> combo.transports,
         accommodations |-> combo.accommodations,
         attractions |-> combo.attractions,
         totalCost |-> totalCost,
         totalDuration |-> totalDuration,
         score |-> ZeroScore,
         breakdown |-> [transport |-> transportCost,
                        accommodation |-> accommodationCost,
                        attractions |-> attractionCost,
                        total |-> totalCost]]

\* matchCount / totalTags, with exact tag equality
Backend_calculatePreferenceScore(candidate, preferences) ==
    IF Len(preferences) = 0 THEN [num |-> 1, den |-> 2]
    ELSE
        LET allTags == Flatten(SeqMap(LAMBDA a : a.tags, candidate.accommodations))
                       \o Flatten(SeqMap(LAMBDA a : a.tags, candidate.attractions))
            matchCount == Cardinality({t \in 1..Len(allTags) :
                                          contains(preferences, allTags[t])})
        IN  IF Len(allTags) > 0
            THEN [num |-> matchCount, den |-> Len(allTags)]
            ELSE [num |-> 0, den |-> 1]

\* Math.max(...values, 1)
MaxOf(values) ==
    LET all == {values[i] : i \in 1..Len(values)} \cup {1}
    IN  CHOOSE m \in all : \A v \in all : v <= m

\* the score of one candidate, clamped to [0, 1]; every term is brought to
\* the denominator budget * maxTime * pref.den * 10 * 100
Backend_candidateScore(candidate, req, w, maxTime) ==
    LET B == BigOf(req.budget)
        BM == BigMulSmall(B, maxTime)
        pref == Backend_calculatePreferenceScore(candidate, req.preferences)
        \* costScore = 1 - totalCost / budget, which may be negative
        costDiff == req.budget - candidate.totalCost
        costSign == IF costDiff >= 0 THEN 1 ELSE 0 - 1
        costMag == BigMulSmall(BigOf(costDiff * costSign), maxTime)
        \* timeScore = 1 - totalDuration / maxTime
        timeNum == maxTime - candidate.totalDuration
        \* fatigueScore = 1 - legs / 10
        fatigueNum == 10 - Len(candidate.transports)
        den == BigMulSmall(BM, 1000 * pref.den)
        sum == SignedAddTerm(
                 SignedAddTerm(
                   SignedAddTerm(
                     SignedAddTerm(SignedZero, costSign * w.cost * 10 * pref.den, costMag),
                     w.time * 10 * pref.den, BigMulSmall(B, timeNum)),
                   w.preference * pref.num * 10, BM),
                 w.fatigue * fatigueNum * pref.den, BM)
    IN  ClampUnit(sum, den)

Backend_scoreAndRank(candidates, req, w) ==
    LET maxTime == MaxOf([i \in 1..Len(candidates) |-> candidates[i].totalDuration])
        scored == AsSeq([i \in 1..Len(candidates) |->
                     [candidates[i] EXCEPT
                        !.score = Backend_candidateScore(candidates[i], req, w, maxTime)]])
        before(a, b) == FracGT(a.score, b.score)
    IN  StableSort(scored, before)

adjustWeights(currentWeights, candidates, req, iteration) ==
    IF Len(candidates) = 0 THEN currentWeights
    ELSE
        LET topCandidate == candidates[1]
            \* budgetUtilization = totalCost / budget, compared with 0.9 and 0.7
            over90 == 10 * topCandidate.totalCost > 9 * req.budget
            under70 == 10 * topCandidate.totalCost < 7 * req.budget
        IN  IF over90
            THEN [cost |-> Min(70, currentWeights.cost + 10),
                  time |-> currentWeights.time - 5,
                  preference |-> currentWeights.preference - 5,
                  fatigue |-> currentWeights.fatigue]
            ELSE IF under70
            THEN [cost |-> Max(30, currentWeights.cost - 10),
                  time |-> currentWeights.time,
                  preference |-> Min(40, currentWeights.preference + 10),
                  fatigue |-> currentWeights.fatigue]
            ELSE currentWeights

-----------------------------------------------------------------------------
(* ClientRouteSearchService: constants, option generation, scoring, weights *)

Client_MAX_ITERATIONS == 3
Client_TOP_N_CANDIDATES == 5
\* MIN_SCORE_THRESHOLD = 0.5
Client_MIN_SCORE_THRESHOLD == [num |-> <<5>>, den |-> <<10>>]

Client_initialWeights == [cost |-> 50, time |-> 30, preference |-> 15, fatigue |-> 5]

Client_departureHours == <<7, 10, 14>>

\* departure and arrival in minutes from midnight of the current day
Client_generateTransportOptions(departure, destination, distance, routeDuration) ==
    LET modes == recommendTransportMode(distance)
        option(mode, hour) ==
            LET cost == calculateTransportCost(distance, mode)
                duration == IF routeDuration > 0 THEN routeDuration
                            ELSE calculateTransportDuration(distance, mode)
            IN  [type |-> mode, from |-> departure, to |-> destination, cost |-> cost,
                 duration |-> duration, departureTime |-> hour * 60,
                 arrivalTime |-> hour * 60 + duration]
    IN  Flatten([m \in 1..Len(modes) |->
                    [h \in 1..Len(Client_departureHours) |->
                        option(modes[m], Client_departureHours[h])]])

Client_popularCities == {"Seoul", "Busan", "Jeju", "Gyeongju", "Gangneung", "Yeosu"}

Client_accommodationTags(type) ==
    CASE type = "budget" -> <<"gaseongbi", "kkalkkeumhan", "chinjeolhan">>
      [] type = "standard" -> <<"pyeonanhan", "siseol joeun", "josik poham">>
      [] type = "premium" -> <<"reoksyeori", "byu joeun", "budaesiseol wanbi">>

\* ratings 3.5, 4.2, 4.7 as 70 * rating
Client_accommodationRating(type) ==
    CASE type = "budget" -> 245
      [] type = "standard" -> 294
      [] type = "premium" -> 329

Client_generateAccommodationOptions(location, duration, budget) ==
    LET isPopular == \E city \in Client_popularCities : includes(location, city)
        option(type) ==
            LET totalCost == calculateAccommodationCost(type, duration, isPopular)
            IN  IF 10 * totalCost > 4 * budget THEN <<>>
                ELSE << [name |-> <<location, type>>, location |-> location,
                         costPerNight |-> Round(totalCost, duration),
                         rating |-> Client_accommodationRating(type),
                         tags |-> Client_accommodationTags(type)] >>
    IN  Flatten([t \in 1..Len(accommodationTypes) |-> option(accommodationTypes[t])])

\* the keys of the mapping of extractTags, in insertion order, and their tags
extractTagKeys ==
    <<"natural", "beaches", "historic", "cultural", "museums", "food", "shops",
      "sport", "parks">>

extractTagOf(key) ==
    CASE key = "natural" -> "jayeon"
      [] key = "beaches" -> "bada"
      [] key = "historic" -> "yeoksa"
      [] key = "cultural" -> "munhwa"
      [] key = "museums" -> "yesul"
      [] key = "food" -> "matjip"
      [] key = "shops" -> "syoping"
      [] key = "sport" -> "aektibiti"
      [] key = "parks" -> "hyusik"

\* kinds is the list kinds.toLowerCase().split(',')
extractTags(kinds, preferences) ==
    LET tagsOf(kind) ==
            Flatten([k \in 1..Len(extractTagKeys) |->
                IF includes(toLowerCase(kind), extractTagKeys[k])
                THEN <<extractTagOf(extractTagKeys[k])>> ELSE <<>>])
    IN  Dedupe(Flatten(SeqMap(tagsOf, kinds)))

\* no key holds a comma, so the joined string includes a key iff a kind does
estimateVisitDuration(kinds) ==
    LET has(key) == \E i \in 1..Len(kinds) : includes(toLowerCase(kinds[i]), key)
    IN  IF has("museums") \/ has("galleries") THEN 120
        ELSE IF has("amusements") \/ has("zoos") THEN 180
        ELSE IF has("churches") \/ has("monuments") THEN 45
        ELSE 90

\* rate is the OpenTripMap rate, 0 when absent; rating is 70 * rating
generateAttractionOptions(rawAttractions, preferences, count) ==
    LET rated == SeqFilter(LAMBDA a : a.rate # 0 /\ a.rate > 2, rawAttractions)
        byRate(a, b) == a.rate > b.rate
        sortedAttractions == Slice(StableSort(rated, byRate), count * 2)
        option(attraction) ==
            [name |-> attraction.name,
             location |-> attraction.point,
             entranceFee |-> estimateAttractionFee(attraction.kinds, attraction.rate * 70),
             duration |-> estimateVisitDuration(attraction.kinds),
             tags |-> extractTags(attraction.kinds, preferences),
             rating |-> Min(attraction.rate * 50, 350)]
    IN  SeqMap(option, Slice(sortedAttractions, count))

\* the id, a random string in the code, is the position of the combination
Client_generateCombinations(transports, accommodations, attrs, req) ==
    LET maxTransports == Min(Len(transports), 3)
        maxAccommodations == Min(Len(accommodations), 3)
        candidate(i, j) ==
            LET transport == transports[i]
                accommodation == accommodations[j]
                transportCost == transport.cost * 2
                accommodationCost == accommodation.costPerNight * req.duration
                attractionsCost == SumSeq([a \in 1..Len(attrs) |-> attrs[a].entranceFee])
                totalCost == transportCost + accommodationCost + attractionsCost
                totalDuration == transport.duration * 2
                                 + SumSeq([a \in 1..Len(attrs) |-> attrs[a].duration])
            IN  [id |-> <<i - 1, j - 1>>,
                 transports |-> <<transport>>,
                 accommodations |-> <<accommodation>>,
                 attractions |-> Slice(attrs, Min(req.duration * 2, 6)),
                 totalCost |-> totalCost,
                 totalDuration |-> totalDuration,
                 score |-> ZeroScore,
                 breakdown |-> [transport |-> transportCost,
                                accommodation |-> accommodationCost,
                                attractions |-> attractionsCost,
                                total |-> totalCost]]
    IN  Flatten([i \in 1..maxTransports |->
                    [j \in 1..maxAccommodations |-> candidate(i, j)]])

\* the scorer of the client is, statement for statement, the scorer of
\* RouteSearchService (unclamped cost score, time score against the longest
\* candidate, exact tag match)
Client_scoreAndRank(candidates, req, w) == Backend_scoreAndRank(candidates, req, w)

Client_adjustWeights(currentWeights, candidates, req) ==
    IF Len(candidates) = 0 THEN currentWeights
    ELSE
        LET topCandidate == candidates[1]
            over90 == 10 * topCandidate.totalCost > 9 * req.budget
            under60 == 10 * topCandidate.totalCost < 6 * req.budget
        IN  IF over90
            THEN [cost |-> Min(70, currentWeights.cost + 10),
                  time |-> currentWeights.time - 5,
                  preference |-> currentWeights.preference - 5,
                  fatigue |-> currentWeights.fatigue]
            ELSE IF under60
            THEN [cost |-> Max(30, currentWeights.cost - 10),
                  time |-> currentWeights.time,
                  preference |-> Min(40, currentWeights.preference + 10),
                  fatigue |-> currentWeights.fatigue]
            ELSE currentWeights

-----------------------------------------------------------------------------
(* Bounds and inputs of the model *)

MaxSearches == 1
MaxTicks == 1
\* time advances in steps that take an entry written before past its TTL
TickStep == 3600001

Requests ==
    { [departure |-> "CityA", destination |-> "CityB", duration |-> 2,
       budget |-> 500000, preferences |-> <<"history">>],
      [departure |-> "CityA", destination |-> "CityB", duration |-> 2,
       budget |-> 1, preferences |-> <<"history">>],
      [departure |-> "CityA", destination |-> "Busan Haeundae", duration |-> 1,
       budget |-> 2000000, preferences |-> <<"yeoksa", "reoksyeori">>],
      [departure |-> "CityB", destination |-> "CityB", duration |-> 1,
       budget |-> 500000, preferences |-> <<>>] }

NoRequest == [departure |-> "", destination |-> "", duration |-> 1,
              budget |-> 1, preferences |-> <<>>]

NoRoute == [distance |-> 0, duration |-> 0]
\* scoredWith: the weights the last scoring pass was given
NoCycle == [n |-> 0, kind |-> "none", combos |-> 0, topMet |-> FALSE,
            scoredWith |-> NoValue]
Pending == [state |-> "pending", value |-> NoValue]

-----------------------------------------------------------------------------
(* EnhancedRouteSearchService.search *)

\* variant of loopContinues written with <= instead of <
loopContinues_OffByOne(its) == its <= MAX_ITERATIONS

\* the condition of the do-while loop
loopContinues(its) == its < MAX_ITERATIONS

\* topScore >= MIN_SCORE_THRESHOLD, topScore = bestCandidates[0]?.score || 0
thresholdMet(ranked) ==
    Len(ranked) > 0 /\ FracGE(ranked[1].score, MIN_SCORE_THRESHOLD)

\* the SearchResult of the return statement
searchResult(best, its, w) ==
    [kind |-> "result", candidates |-> Slice(best, TOP_N_CANDIDATES),
     iterations |-> its, weights |-> w]

\* one smartGeocode call up to its first await: the cache read of withCache
geocodeLookup(c, address) ==
    LET got == cacheGet(c, cacheKey("geocode", <<address>>, <<>>), now)
    IN  IF got[1] # NoValue
        THEN <<[state |-> "resolved", value |-> got[1]], got[2]>>
        ELSE <<[state |-> "fetching", value |-> NoValue], got[2]>>

\* search() is called: the locals are initialised and Promise.all starts both
\* smartGeocode calls, each reading the cache before its fetcher is awaited
StartSearch(req) ==
    /\ service = "enhanced"
    /\ pc \in {"idle", "done", "error"}
    /\ searches < MaxSearches
    /\ LET first == geocodeLookup(cache, req.departure)
           second == geocodeLookup(first[2], req.destination)
       IN  /\ geo' = <<first[1], second[1]>>
           /\ cache' = second[2]
    /\ request' = req
    /\ iterations' = 0
    /\ weights' = initialWeights
    /\ bestCandidates' = <<>>
    /\ lastCycle' = NoCycle
    /\ result' = NoResult
    /\ routeInfo' = NoRoute
    /\ attractions' = <<>>
    /\ searches' = searches + 1
    /\ pc' = "geocode"
    /\ UNCHANGED <<service, hasKey, now, args, ret>>

\* the fetcher of one smartGeocode call resolves (Google, then Nominatim), and
\* withCache stores what it returned; found = FALSE is "not found" (null)
GeocodeReturn(i, found) ==
    /\ service = "enhanced"
    /\ pc = "geocode"
    /\ geo[i].state = "fetching"
    /\ LET address == IF i = 1 THEN request.departure ELSE request.destination
           data == IF found THEN Coordinates(address) ELSE NoValue
       IN  /\ cache' = cacheSet(cache, cacheKey("geocode", <<address>>, <<>>),
                                data, DefaultTTL, now)
           /\ geo' = [geo EXCEPT ![i] = [state |-> "resolved", value |-> data]]
    /\ UNCHANGED <<pc, hasKey, request, routeInfo, attractions, iterations, weights,
                   bestCandidates, lastCycle, result, now, searches, service, args, ret>>

\* if (!departureCoords || !destinationCoords)
locationMissing(departureCoords, destinationCoords) ==
    departureCoords = NoValue \/ destinationCoords = NoValue

\* variant of throwNotFound in which the catch block swallows the error and
\* an empty result is returned
throwNotFound_Swallowed(w) ==
    [pc |-> "done",
     result |-> [kind |-> "result", candidates |-> <<>>, iterations |-> 0,
                 weights |-> w]]

\* throw new Error(...), caught and thrown again by the catch block: the
\* promise of search() is rejected and no SearchResult exists
throwNotFound(w) == [pc |-> "error", result |-> NoResult]

\* variant of promiseAll that settles with the first lookup (Promise.race)
promiseAll_Race(g) == g[1].state = "resolved" \/ g[2].state = "resolved"

\* Promise.all([...]) is fulfilled once both smartGeocode calls are
promiseAll(g) == g[1].state = "resolved" /\ g[2].state = "resolved"

\* Promise.all resolves: the not-found check, then smartRouteCalculation is called
GeocodeJoin ==
    /\ service = "enhanced"
    /\ pc = "geocode"
    /\ promiseAll(geo)
    /\ IF locationMissing(geo[1].value, geo[2].value)
       THEN /\ pc' = throwNotFound(weights).pc
            /\ result' = throwNotFound(weights).result
            /\ UNCHANGED <<routeInfo, cache>>
       ELSE LET key == cacheKey("route",
                         <<geo[1].value.display_name, geo[2].value.display_name>>, <<>>)
                got == cacheGet(cache, key, now)
            IN  /\ cache' = got[2]
                /\ result' = result
                /\ IF got[1] # NoValue
                   THEN routeInfo' = got[1] /\ pc' = "routed"
                   ELSE routeInfo' = NoRoute /\ pc' = "route"
    /\ UNCHANGED <<hasKey, request, geo, attractions, iterations, weights,
                   bestCandidates, lastCycle, now, searches, service, args, ret>>

\* the fetcher of smartRouteCalculation resolves and withCache stores the route
RouteReturn(google, ors) ==
    /\ service = "enhanced"
    /\ pc = "route"
    /\ LET data == routeFetcher(geo[1].value, geo[2].value, google, ors)
           key == cacheKey("route",
                     <<geo[1].value.display_name, geo[2].value.display_name>>, <<>>)
       IN  /\ routeInfo' = data
           /\ cache' = cacheSet(cache, key, data, DefaultTTL, now)
    /\ pc' = "routed"
    /\ UNCHANGED <<hasKey, request, geo, attractions, iterations, weights,
                   bestCandidates, lastCycle, result, now, searches, service, args, ret>>

\* smartAttractionSearch is called: the cache read of withCache
AttractionLookup ==
    /\ service = "enhanced"
    /\ pc = "routed"
    /\ LET key == cacheKey("attractions", <<geo[2].value.display_name>>,
                           request.preferences)
           got == cacheGet(cache, key, now)
       IN  /\ cache' = got[2]
           /\ IF got[1] # NoValue
              THEN attractions' = got[1].list /\ pc' = "loop"
              ELSE attractions' = <<>> /\ pc' = "attractions"
    /\ UNCHANGED <<hasKey, request, geo, routeInfo, iterations, weights,
                   bestCandidates, lastCycle, result, now, searches, service, args, ret>>

\* the fetcher of smartAttractionSearch resolves and withCache stores the list
AttractionReturn(googleAnswers, otmAnswer) ==
    /\ service = "enhanced"
    /\ pc = "attractions"
    /\ LET data == attractionFetcher(request.preferences, googleAnswers, otmAnswer)
           key == cacheKey("attractions", <<geo[2].value.display_name>>,
                           request.preferences)
       IN  /\ attractions' = data
           /\ cache' = cacheSet(cache, key, [list |-> data], DefaultTTL, now)
    /\ pc' = "loop"
    /\ UNCHANGED <<hasKey, request, geo, routeInfo, iterations, weights,
                   bestCandidates, lastCycle, result, now, searches, service, args, ret>>

\* the combinations one cycle generates
cycleCombinations ==
    LET transportOptions ==
            generateSmartTransportOptions(request.departure, request.destination,
                                          routeInfo.distance, routeInfo.duration)
        accommodationOptions ==
            generateAccommodationOptions(request.destination, request.duration,
                                         request.budget)
        topAttractions ==
            selectBestAttractions(attractions, request.preferences,
                                  Min(request.duration * 3, 10))
    IN  generateValidCombinations(transportOptions, accommodationOptions,
                                  topAttractions, request)

\* one pass through the body of the do-while loop and its condition
Cycle ==
    /\ service = "enhanced"
    /\ pc = "loop"
    /\ LET its == iterations + 1
           combinations == cycleCombinations
           ranked == scoreAndRank(combinations, request, weights)
           kind == IF Len(combinations) = 0 THEN "empty"
                   ELSE IF thresholdMet(ranked) THEN "threshold"
                   ELSE "adjusted"
           best == IF kind = "empty" THEN bestCandidates ELSE ranked
           w == CASE kind = "empty" -> relaxCostWeight(weights)
                  [] kind = "threshold" -> weights
                  [] kind = "adjusted" ->
                        smartWeightAdjustment(weights, ranked, request, its)
           again == kind # "threshold" /\ loopContinues(its)
       IN  /\ iterations' = its
           /\ bestCandidates' = best
           /\ weights' = w
           /\ lastCycle' = [n |-> lastCycle.n + 1, kind |-> kind,
                            combos |-> Len(combinations),
                            topMet |-> thresholdMet(ranked),
                            scoredWith |-> IF kind = "empty" THEN lastCycle.scoredWith
                                           ELSE weights]
           /\ IF again
              THEN pc' = "loop" /\ result' = result
              ELSE pc' = "done" /\ result' = searchResult(best, its, w)
    /\ UNCHANGED <<hasKey, request, geo, routeInfo, attractions, cache, now,
                   searches, service, args, ret>>

\* time passes; the code between two awaits (the lookups that follow a join,
\* the whole do-while loop) runs without yielding, so no time passes there.
\* Only the cache of the enhanced service reads the clock.
Tick ==
    /\ service = "enhanced"
    /\ pc \notin {"routed", "loop"}
    /\ now < MaxTicks * TickStep
    /\ now' = now + TickStep
    /\ UNCHANGED <<pc, hasKey, request, geo, routeInfo, attractions, iterations,
                   weights, bestCandidates, lastCycle, result, cache, searches, service,
                   args, ret>>

-----------------------------------------------------------------------------
(* Backend: POST /api/search and RouteSearchService.search *)

\* request bodies: a large budget (threshold in the first cycle), a request
\* whose second cycle reaches the threshold, one that never does, an
\* impossible budget, and a body without a duration
BackendRequests ==
    { [departure |-> "Seoul", destination |-> "Busan", duration |-> 2,
       budget |-> 2000000, preferences |-> <<"yeoksa">>],
      [departure |-> "Seoul", destination |-> "Gyeongju", duration |-> 1,
       budget |-> 300000,
       preferences |-> <<"yeoksa", "munhwa", "jeontong", "sachal", "yunesko">>],
      [departure |-> "Seoul", destination |-> "Busan", duration |-> 2,
       budget |-> 500000, preferences |-> <<"yeoksa">>],
      [departure |-> "Seoul", destination |-> "Busan", duration |-> 2,
       budget |-> 1, preferences |-> <<>>],
      [departure |-> "Seoul", destination |-> "Busan", duration |-> 0,
       budget |-> 500000, preferences |-> <<>>] }

\* the three validity checks of the route handler
validRequest(req) ==
    /\ req.departure # "" /\ req.destination # ""
    /\ req.budget > 0
    /\ req.duration > 0

Backend_loopContinues(its) == its < Backend_MAX_ITERATIONS

\* variant of Backend_thresholdMet with the comparison turned round
Backend_thresholdMet_Inverted(ranked) ==
    Len(ranked) > 0 /\ FracGT(Backend_MIN_SCORE_THRESHOLD, ranked[1].score)

Backend_thresholdMet(ranked) ==
    Len(ranked) > 0 /\ FracGE(ranked[1].score, Backend_MIN_SCORE_THRESHOLD)

\* variant of Backend_searchResult without the slice
Backend_searchResult_Untruncated(best, its, w) ==
    [kind |-> "result", candidates |-> best, iterations |-> its, weights |-> w]

Backend_searchResult(best, its, w) ==
    [kind |-> "result", candidates |-> Slice(best, Backend_TOP_N_CANDIDATES),
     iterations |-> its, weights |-> w]

\* the handler of POST /api/search up to the call of search(): a body that
\* fails a check is answered with status 400
PostSearch(req) ==
    /\ service = "backend"
    /\ pc \in {"idle", "done", "rejected"}
    /\ searches < MaxSearches
    /\ request' = req
    /\ iterations' = 0
    /\ weights' = Backend_initialWeights
    /\ bestCandidates' = <<>>
    /\ lastCycle' = NoCycle
    /\ result' = NoResult
    /\ geo' = <<Pending, Pending>>
    /\ routeInfo' = NoRoute
    /\ attractions' = <<>>
    /\ searches' = searches + 1
    /\ pc' = IF validRequest(req) THEN "loop" ELSE "rejected"
    /\ UNCHANGED <<service, hasKey, cache, now, args, ret>>

\* one pass through the body of the do-while loop of RouteSearchService.search
\* and its condition; after the last pass the result is returned
BackendCycle ==
    /\ service = "backend"
    /\ pc = "loop"
    /\ LET its == iterations + 1
           rawData == fetchRawData(request)
           filtered == filterByConstraints(rawData, request)
           combinations == generateCombinations(filtered, request)
           simulated == SeqMap(LAMBDA combo : simulateCostAndTime(combo, request),
                               combinations)
           ranked == Backend_scoreAndRank(simulated, request, weights)
           met == Backend_thresholdMet(ranked)
           w == IF met THEN weights ELSE adjustWeights(weights, ranked, request, its)
           again == ~met /\ Backend_loopContinues(its)
       IN  /\ iterations' = its
           /\ bestCandidates' = ranked
           /\ weights' = w
           /\ lastCycle' = [n |-> lastCycle.n + 1,
                            kind |-> IF met THEN "threshold" ELSE "adjusted",
                            combos |-> Len(combinations), topMet |-> met,
                            scoredWith |-> weights]
           /\ IF again
              THEN pc' = "loop" /\ result' = result
              ELSE pc' = "done" /\ result' = Backend_searchResult(ranked, its, w)
    /\ UNCHANGED <<service, hasKey, request, geo, routeInfo, attractions, cache,
                   now, searches, args, ret>>

-----------------------------------------------------------------------------
(* ClientRouteSearchService.search *)

Client_loopContinues(its) == its < Client_MAX_ITERATIONS

Client_thresholdMet(ranked) ==
    Len(ranked) > 0 /\ FracGE(ranked[1].score, Client_MIN_SCORE_THRESHOLD)

Client_searchResult(best, its, w) ==
    [kind |-> "result", candidates |-> Slice(best, Client_TOP_N_CANDIDATES),
     iterations |-> its, weights |-> w]

\* search() is called: the locals are initialised and geocode(departure) is awaited
ClientStartSearch(req) ==
    /\ service = "client"
    /\ pc \in {"idle", "done", "error"}
    /\ searches < MaxSearches
    /\ request' = req
    /\ iterations' = 0
    /\ weights' = Client_initialWeights
    /\ bestCandidates' = <<>>
    /\ lastCycle' = NoCycle
    /\ result' = NoResult
    /\ geo' = <<[state |-> "fetching", value |-> NoValue], Pending>>
    /\ routeInfo' = NoRoute
    /\ attractions' = <<>>
    /\ searches' = searches + 1
    /\ pc' = "geocode1"
    /\ UNCHANGED <<service, hasKey, cache, now, args, ret>>

\* geocode(departure) resolves (null when nothing is found or the call
\* fails), and geocode(destination) is awaited
ClientGeocodeDeparture(found) ==
    /\ service = "client"
    /\ pc = "geocode1"
    /\ geo' = << [state |-> "resolved",
                  value |-> IF found THEN Coordinates(request.departure) ELSE NoValue],
                 [state |-> "fetching", value |-> NoValue] >>
    /\ pc' = "geocode2"
    /\ UNCHANGED <<service, hasKey, request, routeInfo, attractions, iterations,
                   weights, bestCandidates, lastCycle, result, cache, now, searches,
                   args, ret>>

\* geocode(destination) resolves: the not-found check, then getRoute is awaited
ClientGeocodeDestination(found) ==
    /\ service = "client"
    /\ pc = "geocode2"
    /\ LET value == IF found THEN Coordinates(request.destination) ELSE NoValue
       IN  /\ geo' = [geo EXCEPT ![2] = [state |-> "resolved", value |-> value]]
           /\ IF locationMissing(geo[1].value, value)
              THEN /\ pc' = throwNotFound(weights).pc
                   /\ result' = throwNotFound(weights).result
              ELSE /\ pc' = "route"
                   /\ result' = result
    /\ UNCHANGED <<service, hasKey, request, routeInfo, attractions, iterations,
                   weights, bestCandidates, lastCycle, cache, now, searches, args, ret>>

\* getRoute resolves with an answer or null: actualDistance and routeDuration,
\* then searchAttractions is awaited
ClientRouteReturn(ors) ==
    /\ service = "client"
    /\ pc = "route"
    /\ LET distance == calculateDistance(geo[1].value.lat, geo[1].value.lon,
                                         geo[2].value.lat, geo[2].value.lon)
       IN  routeInfo' = IF ors # NoValue
                        THEN [distance |-> ors.distance,
                              duration |-> Round(ors.duration, 60)]
                        ELSE [distance |-> (distance * 13) \div 10, duration |-> 0]
    /\ pc' = "attractions"
    /\ UNCHANGED <<service, hasKey, request, geo, attractions, iterations, weights,
                   bestCandidates, lastCycle, result, cache, now, searches, args, ret>>

\* searchAttractions resolves with the named places, or [] when the call fails
ClientAttractionsReturn(otmAnswer) ==
    /\ service = "client"
    /\ pc = "attractions"
    /\ attractions' = otmAnswer
    /\ pc' = "loop"
    /\ UNCHANGED <<service, hasKey, request, geo, routeInfo, iterations, weights,
                   bestCandidates, lastCycle, result, cache, now, searches, args, ret>>

\* one pass through the body of the do-while loop and its condition
ClientCycle ==
    /\ service = "client"
    /\ pc = "loop"
    /\ LET its == iterations + 1
           transportOptions ==
               Client_generateTransportOptions(request.departure, request.destination,
                                               routeInfo.distance, routeInfo.duration)
           accommodationOptions ==
               Client_generateAccommodationOptions(request.destination, request.duration,
                                                   request.budget)
           attractionOptions ==
               generateAttractionOptions(attractions, request.preferences,
                                         Min(request.duration * 3, 6))
           combinations ==
               Client_generateCombinations(transportOptions, accommodationOptions,
                                           attractionOptions, request)
           ranked == Client_scoreAndRank(combinations, request, weights)
           met == Client_thresholdMet(ranked)
           w == IF met THEN weights ELSE Client_adjustWeights(weights, ranked, request)
           again == ~met /\ Client_loopContinues(its)
       IN  /\ iterations' = its
           /\ bestCandidates' = ranked
           /\ weights' = w
           /\ lastCycle' = [n |-> lastCycle.n + 1,
                            kind |-> IF met THEN "threshold" ELSE "adjusted",
                            combos |-> Len(combinations), topMet |-> met,
                            scoredWith |-> weights]
           /\ IF again
              THEN pc' = "loop" /\ result' = result
              ELSE pc' = "done" /\ result' = Client_searchResult(ranked, its, w)
    /\ UNCHANGED <<service, hasKey, request, geo, routeInfo, attractions, cache,
                   now, searches, args, ret>>

NoArgs == [op |-> "none"]

\* api.ts wires the page to one of the two client-side services; the backend
\* is a server of its own.  Only the enhanced service reads the Google key.
Init ==
    /\ service \in {"enhanced", "client", "backend"}
    /\ pc = "idle"
    /\ hasKey \in (IF service = "enhanced" THEN BOOLEAN ELSE {FALSE})
    /\ request = NoRequest
    /\ geo = <<Pending, Pending>>
    /\ routeInfo = NoRoute
    /\ attractions = <<>>
    /\ iterations = 0
    /\ weights = initialWeights
    /\ bestCandidates = <<>>
    /\ lastCycle = NoCycle
    /\ result = NoResult
    /\ cache = <<>>
    /\ now = 0
    /\ searches = 0
    /\ args = NoArgs
    /\ ret = NoArgs

Next ==
    \/ \E req \in Requests : StartSearch(req)
    \/ \E i \in 1..2, found \in BOOLEAN : GeocodeReturn(i, found)
    \/ GeocodeJoin
    \/ \E google \in RouteAnswers \cup {NoValue}, ors \in RouteAnswers \cup {NoValue} :
          RouteReturn(google, ors)
    \/ AttractionLookup
    \/ \E n \in {googleTypeCount(request.preferences)} :
          \E googleAnswers \in [1..n -> GooglePlaceLists], otmAnswer \in OtmPlaceLists :
             AttractionReturn(googleAnswers, otmAnswer)
    \/ Cycle
    \/ Tick
    \/ \E req \in BackendRequests : PostSearch(req)
    \/ BackendCycle
    \/ \E req \in Requests : ClientStartSearch(req)
    \/ \E found \in BOOLEAN : ClientGeocodeDeparture(found)
    \/ \E found \in BOOLEAN : ClientGeocodeDestination(found)
    \/ \E ors \in RouteAnswers \cup {NoValue} : ClientRouteReturn(ors)
    \/ \E otmAnswer \in OtmPlaceLists : ClientAttractionsReturn(otmAnswer)
    \/ ClientCycle

Spec == Init /\ [][Next]_vars

-----------------------------------------------------------------------------
(* Claims about EnhancedRouteSearchService.search, checked under Spec *)

\* the request of the end-to-end scenario
ScenarioRequest ==
    [departure |-> "CityA", destination |-> "CityB", duration |-> 2,
     budget |-> 500000, preferences |-> <<"history">>]

modeSet(distanceKm) ==
    {recommendTransportMode(distanceKm)[i] :
        i \in 1..Len(recommendTransportMode(distanceKm))}

\* C1 (as claimed): a finished search for the scenario request (duration 2,
\* budget 500000, one preference tag, both places geocoded, road distance
\* 300 km) returns at least one candidate whose totalCost is <= 500000 and
\* whose legs all use a mode of recommendTransportMode(300)
C1_EndToEndCandidate ==
    (service = "enhanced" /\ pc = "done" /\ request = ScenarioRequest
     /\ routeInfo.distance = 300)
    => \E i \in 1..Len(result.candidates) :
          /\ result.candidates[i].totalCost <= 500000
          /\ \A t \in 1..Len(result.candidates[i].transports) :
                result.candidates[i].transports[t].type \in modeSet(300)

\* C2: with the impossible budget of 1 the search never runs a fifth cycle,
\* never holds a candidate, and when it has returned it has run exactly
\* MAX_ITERATIONS cycles and returned iterations = MAX_ITERATIONS with an
\* empty candidate list
C2_IterationCap ==
    (service = "enhanced" /\ request.budget = 1 /\ pc \in {"loop", "done"})
    => /\ lastCycle.n <= MAX_ITERATIONS
       /\ bestCandidates = <<>>
       /\ (pc = "loop" => lastCycle.n < MAX_ITERATIONS)
       /\ (pc = "done" => /\ lastCycle.n = MAX_ITERATIONS
                          /\ result.kind = "result"
                          /\ result.iterations = MAX_ITERATIONS
                          /\ result.candidates = <<>>)

C2_Witness ==
    service = "enhanced" /\ pc = "done" /\ request.budget = 1 /\ lastCycle.n = MAX_ITERATIONS

\* C4: a cycle that generates zero combinations raises no error, lowers the
\* cost weight by 0.1 but not below 0.3, keeps the other three weights and
\* the best-candidate list, and goes on to the next cycle below the cap; at
\* the cap the search returns a SearchResult with the candidate list it
\* holds and the number of cycles run
C4_ZeroCombinationCycle ==
    [][ (service = "enhanced" /\ pc = "loop" /\ lastCycle'.n = lastCycle.n + 1
         /\ lastCycle'.combos = 0)
        => /\ pc' \in {"loop", "done"}
           /\ weights'.cost >= 30
           /\ (weights.cost >= 40 => weights'.cost = weights.cost - 10)
           /\ (weights.cost < 40 => weights'.cost = 30)
           /\ weights'.time = weights.time
           /\ weights'.preference = weights.preference
           /\ weights'.fatigue = weights.fatigue
           /\ bestCandidates' = bestCandidates
           /\ (lastCycle'.n < MAX_ITERATIONS => pc' = "loop" /\ result' = NoResult)
           /\ (lastCycle'.n >= MAX_ITERATIONS =>
                 /\ pc' = "done"
                 /\ result'.kind = "result"
                 /\ result'.candidates = Slice(bestCandidates, TOP_N_CANDIDATES)
                 /\ result'.iterations = lastCycle'.n) ]_vars

\* a search that has returned after zero-combination cycles took the cost
\* weight from 0.45 down to its floor
C4_Witness ==
    /\ service = "enhanced"
    /\ pc = "done" /\ lastCycle.kind = "empty" /\ lastCycle.n = MAX_ITERATIONS
    /\ weights.cost = 30 /\ result.kind = "result" /\ result.candidates = <<>>

\* the positions at which a search waits for a geocoding answer: the joint
\* wait of the enhanced search, the two sequential waits of the client search
GeocodeWaits == {"geocode", "geocode1", "geocode2"}

notFound(g) == \E i \in 1..2 : g[i].state = "resolved" /\ g[i].value = NoValue

C5_State ==
    /\ (service \in {"enhanced", "client"} /\ notFound(geo))
          => /\ pc \in GeocodeWaits \cup {"error"}
             /\ result = NoResult
             /\ iterations = 0 /\ lastCycle.n = 0
    /\ pc = "error"
          => /\ notFound(geo)
             /\ result = NoResult
             /\ iterations = 0 /\ lastCycle.n = 0

C5_Step ==
    \* the step that ends the waiting with a not-found answer ends in the error
    /\ (pc \in GeocodeWaits /\ pc' \notin GeocodeWaits /\ notFound(geo'))
          => pc' = "error" /\ result' = NoResult
    \* the failed search runs no cycle afterwards: only a new search follows
    /\ (pc = "error" /\ pc' # "error")
          => pc' \in GeocodeWaits /\ iterations' = 0 /\ ~notFound(geo')

\* C5: once geocoding has answered not-found for the origin or for the
\* destination, the search is still waiting for the other lookup or has
\* ended in an error; it has no SearchResult and has started no cycle, and
\* the step that ends the waiting leads to the error
C5_UnresolvableLocation ==
    /\ []C5_State
    /\ [][C5_Step]_vars

\* the destination was not found while the origin was, and the search failed
C5_Witness ==
    /\ pc = "error"
    /\ geo[1].value # NoValue /\ geo[2].value = NoValue

-----------------------------------------------------------------------------
(* The terminal conditions of the three search loops *)

Searching == service \in {"enhanced", "backend", "client"}

maxIterationsOf(svc) ==
    CASE svc = "enhanced" -> MAX_ITERATIONS
      [] svc = "backend" -> Backend_MAX_ITERATIONS
      [] svc = "client" -> Client_MAX_ITERATIONS
      [] OTHER -> 0

thresholdOf(svc) ==
    CASE svc = "enhanced" -> MIN_SCORE_THRESHOLD
      [] svc = "backend" -> Backend_MIN_SCORE_THRESHOLD
      [] OTHER -> Client_MIN_SCORE_THRESHOLD

\* the list of the last scoring pass has a top score >= the threshold
topScoreMet(svc, best) ==
    Len(best) > 0 /\ FracGE(best[1].score, thresholdOf(svc))

C3_State ==
    /\ (Searching /\ pc = "loop") =>
          /\ lastCycle.n < maxIterationsOf(service)
          /\ iterations = lastCycle.n
          /\ ~topScoreMet(service, bestCandidates)
          /\ result = NoResult
    /\ (Searching /\ pc = "done") =>
          /\ lastCycle.n >= 1
          /\ lastCycle.n <= maxIterationsOf(service)
          /\ result.kind = "result"
          /\ result.iterations = lastCycle.n
          /\ (lastCycle.n < maxIterationsOf(service) =>
                /\ lastCycle.combos > 0
                /\ topScoreMet(service, bestCandidates))
    /\ (Searching /\ pc \notin {"loop", "done"}) => lastCycle.n = 0

C3_Step ==
    \* a cycle runs only in the loop, after cycles that stayed below the threshold
    /\ (lastCycle' # lastCycle /\ lastCycle'.n # 0) =>
          /\ pc = "loop"
          /\ lastCycle'.n = lastCycle.n + 1
          /\ ~topScoreMet(service, bestCandidates)
    \* the cycle that reaches the cap returns
    /\ (lastCycle'.n = lastCycle.n + 1 /\ lastCycle'.n >= maxIterationsOf(service)) =>
          /\ pc' = "done"
          /\ result'.kind = "result"
          /\ result'.iterations = lastCycle'.n
    \* a cycle whose top score reaches the threshold returns at once and
    \* leaves the weights alone
    /\ (lastCycle'.n = lastCycle.n + 1 /\ lastCycle'.combos > 0
        /\ topScoreMet(service, bestCandidates')) =>
          /\ pc' = "done"
          /\ weights' = weights
    \* the weights change only when a search starts or in a cycle below the
    \* threshold
    /\ weights' # weights =>
          \/ lastCycle'.n = 0
          \/ lastCycle'.n = lastCycle.n + 1 /\ ~topScoreMet(service, bestCandidates')
    \* the only step a search in its loop takes is its next cycle
    /\ (pc = "loop" /\ lastCycle'.n # 0) => lastCycle'.n = lastCycle.n + 1
    \* a search that has returned runs nothing more
    /\ (pc = "done" /\ lastCycle'.n # 0) => lastCycle' = lastCycle /\ result' = result

\* C3: every search that reaches its loop runs at least 1 and at most
\* MAX_ITERATIONS cycles and then returns; it returns after fewer cycles only
\* if the last cycle produced candidates whose top score is >= the threshold;
\* after such a cycle no further cycle runs and no weight is adjusted; the
\* returned iterations field is the number of cycles executed
C3_TerminalConditions ==
    /\ []C3_State
    /\ [][C3_Step]_vars

\* the backend search returned from its second cycle, which reached the threshold
C3_Witness ==
    /\ service = "backend" /\ pc = "done"
    /\ lastCycle.n = 2 /\ result.iterations = 2
    /\ topScoreMet("backend", bestCandidates)
    /\ weights # Backend_initialWeights

\* searches that ran to the cap without reaching the threshold
C3_CapReached ==
    /\ pc = "done" /\ lastCycle.n = maxIterationsOf(service)
    /\ ~topScoreMet(service, bestCandidates)

-----------------------------------------------------------------------------
(* The candidate list of the SearchResult *)

topNOf(svc) ==
    CASE svc = "enhanced" -> TOP_N_CANDIDATES
      [] svc = "backend" -> Backend_TOP_N_CANDIDATES
      [] OTHER -> Client_TOP_N_CANDIDATES

\* s is in non-increasing score order
bestFirst(s) ==
    \A i \in 1..Len(s) : \A j \in 1..Len(s) : i < j => FracGE(s[i].score, s[j].score)

\* C13: the candidates a search returns are the first min(TOP_N, count)
\* entries of the ranking of its last scoring pass, in non-increasing score
\* order, and never more than TOP_N (8 in the enhanced search, 5 in the
\* backend and the client search)
C13_ResultCandidates ==
    /\ bestFirst(bestCandidates)
    /\ pc = "done" =>
          /\ result.kind = "result"
          /\ Len(result.candidates) = Min(topNOf(service), Len(bestCandidates))
          /\ Len(result.candidates) <= topNOf(service)
          /\ \A i \in 1..Len(result.candidates) :
                result.candidates[i] = bestCandidates[i]
          /\ bestFirst(result.candidates)

\* a backend search whose last scoring pass ranked nine combinations returned
\* the best five of them, the first scoring strictly higher than the fifth
C13_Witness ==
    /\ service = "backend" /\ pc = "done"
    /\ Len(bestCandidates) = 9
    /\ Len(result.candidates) = Backend_TOP_N_CANDIDATES
    /\ FracGT(result.candidates[1].score, result.candidates[5].score)

-----------------------------------------------------------------------------
(* The weights of the SearchResult *)

\* C14 (as claimed): a search that returns a non-empty candidate list returns
\* the weights its last scoring pass was given, the pass that computed the
\* scores of the returned candidates
C14_ResultWeights ==
    (pc = "done" /\ Len(result.candidates) > 0)
        => result.weights = lastCycle.scoredWith

-----------------------------------------------------------------------------
(* The join point before the loop of the enhanced search *)

routeKey == cacheKey("route", <<geo[1].value.display_name, geo[2].value.display_name>>,
                     <<>>)
attractionsKey == cacheKey("attractions", <<geo[2].value.display_name>>,
                           request.preferences)

\* in the loop and after it both places are resolved to the coordinates of
\* the requested addresses, whichever lookup completed first, and the route
\* and the attraction list are the completed answers the cache holds
C15_State ==
    (service = "enhanced" /\ (pc \in {"loop", "done"} \/ lastCycle.n > 0)) =>
        /\ geo[1] = [state |-> "resolved", value |-> Coordinates(request.departure)]
        /\ geo[2] = [state |-> "resolved", value |-> Coordinates(request.destination)]
        /\ routeKey \in DOMAIN cache /\ cache[routeKey].data = routeInfo
        /\ attractionsKey \in DOMAIN cache
        /\ cache[attractionsKey].data = [list |-> attractions]

C15_Step ==
    service = "enhanced" =>
        \* the wait for the geocode lookups ends only when both have completed
        /\ (pc = "geocode" /\ pc' # "geocode") =>
              /\ \A i \in 1..2 : geo[i].state = "resolved"
              /\ geo' = geo
        \* the route lookup follows the geocode lookups, the attraction lookup
        \* follows the route lookup, the loop follows the attraction lookup
        /\ (pc' = "route" /\ pc # "route") => pc = "geocode"
        /\ (pc' = "routed" /\ pc # "routed") => pc \in {"geocode", "route"}
        /\ (pc' = "attractions" /\ pc # "attractions") => pc = "routed"
        /\ (pc' = "loop" /\ pc # "loop") => pc \in {"routed", "attractions"}
        \* a cycle runs only in the loop, on the data the lookups left
        /\ lastCycle'.n = lastCycle.n + 1 =>
              /\ pc = "loop"
              /\ geo' = geo /\ routeInfo' = routeInfo /\ attractions' = attractions

\* C15: no cycle of the enhanced search starts before both geocode lookups,
\* the route lookup and the attraction lookup have completed, and the data
\* the loop sees does not depend on which geocode lookup completed first
C15_JoinPoint ==
    /\ []C15_State
    /\ [][C15_Step]_vars

\* a search in its loop whose destination lookup completed before its origin
\* lookup: the cache entry of the destination is the older one
C15_Witness ==
    /\ service = "enhanced" /\ pc = "loop"
    /\ request.departure # request.destination
    /\ LET origin == cacheKey("geocode", <<request.departure>>, <<>>)
           destination == cacheKey("geocode", <<request.destination>>, <<>>)
       IN  /\ origin \in DOMAIN cache /\ destination \in DOMAIN cache
           /\ cache[destination].timestamp < cache[origin].timestamp

\* a search in its loop whose origin lookup completed first
C15_OriginFirst ==
    /\ service = "enhanced" /\ pc = "loop"
    /\ request.departure # request.destination
    /\ LET origin == cacheKey("geocode", <<request.departure>>, <<>>)
           destination == cacheKey("geocode", <<request.destination>>, <<>>)
       IN  /\ origin \in DOMAIN cache /\ destination \in DOMAIN cache
           /\ cache[origin].timestamp < cache[destination].timestamp

-----------------------------------------------------------------------------
(* Two overlapping withCache calls for one key: the two geocode lookups of
   an enhanced search whose origin and destination are the same address *)

sameAddress == service = "enhanced" /\ request.departure = request.destination

geocodeKey(address) == cacheKey("geocode", <<address>>, <<>>)

\* C17 (as claimed): overlapping withCache calls for one key have a single
\* writer: the fetcher is not invoked by both calls, and both callers hold
\* the value that the cache holds for the key
C17_SingleWriter ==
    (sameAddress /\ pc = "geocode") =>
        /\ ~(geo[1].state = "fetching" /\ geo[2].state = "fetching")
        /\ ((geo[1].state = "resolved" /\ geo[2].state = "resolved") =>
              /\ geo[1].value = geo[2].value
              /\ cache[geocodeKey(request.departure)].data = geo[1].value)

C17_State ==
    \* both calls read the cache before either fetcher resolves: both hit the
    \* same entry or both miss and invoke a fetcher of their own
    /\ (sameAddress /\ pc = "geocode") =>
          ((geo[1].state = "fetching" \/ geo[2].state = "fetching") =>
              /\ geo[1].state # "pending" /\ geo[2].state # "pending"
              /\ \A i \in 1..2 : geo[i].state = "resolved" =>
                    geocodeKey(request.departure) \in DOMAIN cache)
    \* an entry is always one whole write
    /\ \A k \in DOMAIN cache :
          /\ cache[k].expiresAt = cache[k].timestamp + DefaultTTL
          /\ cache[k].timestamp <= now

C17_Step ==
    \* every call whose fetcher resolves receives what its own fetcher
    \* returned and replaces the entry of the key by a whole new entry
    \A i \in 1..2 :
        (service = "enhanced" /\ pc = "geocode"
         /\ geo[i].state = "fetching" /\ geo'[i].state = "resolved") =>
            LET key == geocodeKey(IF i = 1 THEN request.departure
                                  ELSE request.destination)
            IN  /\ key \in DOMAIN cache'
                /\ cache'[key] = [data |-> geo'[i].value, timestamp |-> now,
                                  expiresAt |-> now + DefaultTTL]
                /\ \A k \in DOMAIN cache' \ {key} :
                      k \in DOMAIN cache /\ cache'[k] = cache[k]
                /\ geo'[3 - i] = geo[3 - i]

\* C17 (amended): overlapping withCache calls for one key each invoke their
\* own fetcher and each write the entry; a write replaces the whole entry,
\* so the cache holds the entry of the call that resolved last, and every
\* caller receives what its own fetcher returned
C17_LastWriterWins ==
    /\ []C17_State
    /\ [][C17_Step]_vars

\* both lookups of one address missed and resolved, the first to not-found
\* and the second to coordinates written later: the cache holds the second
\* answer while the first caller holds null
C17_Witness ==
    /\ sameAddress /\ pc = "geocode"
    /\ geo[1].state = "resolved" /\ geo[2].state = "resolved"
    /\ geo[1].value = NoValue /\ geo[2].value # NoValue
    /\ cache[geocodeKey(request.departure)].data = geo[2].value
    /\ cache[geocodeKey(request.departure)].timestamp > 0

-----------------------------------------------------------------------------
(* The weights of one enhanced search, cycle by cycle: every cycle that does
   not end the search either relaxes the cost weight (no combination) or calls
   smartWeightAdjustment with the ranked list, whose top candidate may use
   any share of the budget *)

\* the budget of the request and the total costs the top candidate may have:
\* utilisations below 0.6, at 0.6, between, at 0.9 and above 0.9
UsageBudget == 100
TopCosts == {50, 59, 60, 75, 90, 91, 95}

UsageRequest ==
    [departure |-> "CityA", destination |-> "CityB", duration |-> 1,
     budget |-> UsageBudget, preferences |-> <<>>]

InitWeights ==
    /\ service = "enhanced"
    /\ pc = "weights"
    /\ hasKey = FALSE
    /\ request = UsageRequest
    /\ geo = <<Pending, Pending>>
    /\ routeInfo = NoRoute
    /\ attractions = <<>>
    /\ iterations = 0
    /\ weights = initialWeights
    /\ bestCandidates = <<>>
    /\ lastCycle = NoCycle
    /\ result = NoResult
    /\ cache = <<>>
    /\ now = 0
    /\ searches = 0
    /\ args = NoArgs
    /\ ret = NoArgs

\* a cycle with a non-empty ranked list below the threshold: line 251
AdjustStep(topCost) ==
    /\ pc = "weights"
    /\ iterations = 0 \/ loopContinues(iterations)
    /\ LET ranked == << [totalCost |-> topCost] >>
           w == smartWeightAdjustment(weights, ranked, request, iterations + 1)
       IN  /\ weights' = w
           /\ ret' = w
           /\ bestCandidates' = ranked
    /\ iterations' = iterations + 1
    /\ args' = [op |-> "smartWeightAdjustment", weights |-> weights,
                totalCost |-> topCost, budget |-> request.budget]
    /\ UNCHANGED <<pc, hasKey, request, geo, routeInfo, attractions, lastCycle,
                   result, cache, now, searches, service>>

\* a cycle without combinations: lines 232-236
RelaxStep ==
    /\ pc = "weights"
    /\ iterations = 0 \/ loopContinues(iterations)
    /\ weights' = relaxCostWeight(weights)
    /\ ret' = weights'
    /\ iterations' = iterations + 1
    /\ args' = [op |-> "relax", weights |-> weights, totalCost |-> 0,
                budget |-> request.budget]
    /\ UNCHANGED <<pc, hasKey, request, geo, routeInfo, attractions,
                   bestCandidates, lastCycle, result, cache, now, searches, service>>

NextWeights ==
    \/ \E topCost \in TopCosts : AdjustStep(topCost)
    \/ RelaxStep

SpecWeights == InitWeights /\ [][NextWeights]_vars

\* the last step was smartWeightAdjustment with a utilisation above 0.9
HighUseStep ==
    /\ args.op = "smartWeightAdjustment"
    /\ 10 * args.totalCost > 9 * args.budget

\* C6 (as claimed): smartWeightAdjustment with a top candidate whose budget
\* utilisation is above 0.9 returns a cost weight strictly greater than the
\* one it was given and not above 0.6
C6_StrictIncrease ==
    HighUseStep => (ret.cost > args.weights.cost /\ ret.cost <= 60)

\* C6 (amended): smartWeightAdjustment with a top candidate whose budget
\* utilisation is above 0.9 returns the cost weight min(0.6, previous + 0.08):
\* never above 0.6, never below the previous one, strictly greater whenever
\* the previous one is below 0.6, and equal to it at the ceiling 0.6
C6_BoundedIncrease ==
    HighUseStep =>
        /\ ret.cost = Min(60, args.weights.cost + 8)
        /\ ret.cost <= 60
        /\ ret.cost >= args.weights.cost
        /\ (args.weights.cost < 60 => ret.cost > args.weights.cost)
        /\ (args.weights.cost = 60 => ret.cost = 60)

\* the adjustment was applied at the ceiling: 0.45, 0.53, 0.60 and again 0.60
C6_Witness ==
    HighUseStep /\ args.weights.cost = 60 /\ ret.cost = 60

\* C7: after at most MAX_ITERATIONS steps from the initial weights, each a
\* smartWeightAdjustment with any budget utilisation or a zero-combination
\* relaxation, all four weights are >= 0
C7_NonNegativeWeights ==
    /\ iterations <= MAX_ITERATIONS
    /\ weights.cost >= 0
    /\ weights.time >= 0
    /\ weights.preference >= 0
    /\ weights.fatigue >= 0

\* four adjustments under high budget use: preference 0.20 down to 0.04
C7_Witness ==
    /\ iterations = MAX_ITERATIONS
    /\ HighUseStep
    /\ weights.preference = 4 /\ weights.time = 14

\* C8 (as claimed): after any sequence of adjustments and relaxations of one
\* search the cost weight is within [0.3, 0.6] and the preference weight is
\* at most 0.35
C8_FloorAndCeiling ==
    /\ weights.cost >= 30 /\ weights.cost <= 60
    /\ weights.preference <= 35

-----------------------------------------------------------------------------
(* The weights of one backend search, cycle by cycle: every cycle that does
   not reach the threshold calls adjustWeights with the ranked list, whose top
   candidate may use any share of the budget; the search returns after at
   most MAX_ITERATIONS cycles *)

InitBackendWeights ==
    /\ service = "backend"
    /\ pc = "weights"
    /\ hasKey = FALSE
    /\ request = UsageRequest
    /\ geo = <<Pending, Pending>>
    /\ routeInfo = NoRoute
    /\ attractions = <<>>
    /\ iterations = 0
    /\ weights = Backend_initialWeights
    /\ bestCandidates = <<>>
    /\ lastCycle = NoCycle
    /\ result = NoResult
    /\ cache = <<>>
    /\ now = 0
    /\ searches = 0
    /\ args = NoArgs
    /\ ret = NoArgs

\* a cycle below the threshold: part_001 line 65
BackendAdjustStep(topCost) ==
    /\ pc = "weights"
    /\ iterations = 0 \/ Backend_loopContinues(iterations)
    /\ LET ranked == << [totalCost |-> topCost] >>
           w == adjustWeights(weights, ranked, request, iterations + 1)
       IN  /\ weights' = w
           /\ ret' = w
           /\ bestCandidates' = ranked
    /\ iterations' = iterations + 1
    /\ args' = [op |-> "adjustWeights", weights |-> weights,
                totalCost |-> topCost, budget |-> request.budget]
    /\ UNCHANGED <<pc, hasKey, request, geo, routeInfo, attractions, lastCycle,
                   result, cache, now, searches, service>>

\* the loop is left on the iteration cap: part_001 lines 67-75
BackendReturn ==
    /\ pc = "weights"
    /\ iterations > 0 /\ ~Backend_loopContinues(iterations)
    /\ result' = Backend_searchResult(bestCandidates, iterations, weights)
    /\ pc' = "done"
    /\ UNCHANGED <<hasKey, request, geo, routeInfo, attractions, iterations, weights,
                   bestCandidates, lastCycle, cache, now, searches, service, args, ret>>

NextBackendWeights ==
    \/ \E topCost \in TopCosts : BackendAdjustStep(topCost)
    \/ BackendReturn

SpecBackendWeights == InitBackendWeights /\ [][NextBackendWeights]_vars

\* C28: from the initial weights, after at most MAX_ITERATIONS applications of
\* adjustWeights with any budget utilisation of the top candidate at each
\* step, the four weights of the returned SearchResult are >= 0
C28_BackendNonNegativeWeights ==
    pc = "done" =>
        /\ result.weights.cost >= 0
        /\ result.weights.time >= 0
        /\ result.weights.preference >= 0
        /\ result.weights.fatigue >= 0

-----------------------------------------------------------------------------
(* generateValidCombinations as a function of its four arguments *)

\* the longest list of transport options and of accommodation options drawn
MaxTransportOptions == 3
MaxAccommodationOptions == 1

\* minutes from midnight of the start date; the third leg departs exactly
\* 12 hours after the first arrives, the fourth one minute earlier
TransportPool ==
    { [type |-> "train", from |-> "CityA", to |-> "CityB", cost |-> 10000,
       duration |-> 200, departureTime |-> 420, arrivalTime |-> 620],
      [type |-> "bus", from |-> "CityA", to |-> "CityB", cost |-> 14000,
       duration |-> 240, departureTime |-> 2460, arrivalTime |-> 2700],
      [type |-> "car", from |-> "CityA", to |-> "CityB", cost |-> 15000,
       duration |-> 200, departureTime |-> 1340, arrivalTime |-> 1540],
      [type |-> "flight", from |-> "CityA", to |-> "CityB", cost |-> 15001,
       duration |-> 60, departureTime |-> 1339, arrivalTime |-> 1399] }

AccommodationPool ==
    { [name |-> <<"CityB", "budget">>, location |-> "CityB", costPerNight |-> 20000,
       rating |-> 266, tags |-> <<"gaseongbi">>],
      [name |-> <<"CityB", "premium">>, location |-> "CityB", costPerNight |-> 30000,
       rating |-> 336, tags |-> <<"reoksyeori">>] }

AttractionLists ==
    { <<>>,
      << [name |-> "Museum", location |-> "CityB", entranceFee |-> 5000,
          duration |-> 90, tags |-> <<"museum">>, rating |-> 300] >>,
      \* the three attractions selectBestAttractions gives a one-day trip
      << [name |-> "Museum", location |-> "CityB", entranceFee |-> 5000,
          duration |-> 90, tags |-> <<"museum">>, rating |-> 300],
         [name |-> "Park", location |-> "CityB", entranceFee |-> 0,
          duration |-> 90, tags |-> <<"park">>, rating |-> 280],
         [name |-> "Palace", location |-> "CityB", entranceFee |-> 10000,
          duration |-> 90, tags |-> <<"history">>, rating |-> 270] >> }

\* budgets around the totals the pools give: 50000 * 1.1 = 55000 is a total
CombinationRequests ==
    { [departure |-> "CityA", destination |-> "CityB", duration |-> d,
       budget |-> b, preferences |-> <<"museum">>] :
         d \in {1, 2}, b \in {1, 45000, 50000, 500000} }

SeqsUpTo(S, n) == UNION {[1..m -> S] : m \in 1..n}

InitCombos ==
    /\ service = "enhanced"
    /\ pc = "combos"
    /\ hasKey = FALSE
    /\ request = NoRequest
    /\ geo = <<Pending, Pending>>
    /\ routeInfo = NoRoute
    /\ attractions = <<>>
    /\ iterations = 0
    /\ weights = initialWeights
    /\ bestCandidates = <<>>
    /\ lastCycle = NoCycle
    /\ result = NoResult
    /\ cache = <<>>
    /\ now = 0
    /\ searches = 0
    /\ args \in [op : {"generateValidCombinations"},
                 transports : SeqsUpTo(TransportPool, MaxTransportOptions),
                 accommodations : SeqsUpTo(AccommodationPool, MaxAccommodationOptions),
                 attrs : AttractionLists,
                 request : CombinationRequests]
    /\ ret = NoArgs

Combine ==
    /\ pc = "combos"
    /\ ret' = [op |-> "generateValidCombinations",
               candidates |-> generateValidCombinations(args.transports,
                                 args.accommodations, args.attrs, args.request)]
    /\ pc' = "combined"
    /\ UNCHANGED <<hasKey, request, geo, routeInfo, attractions, iterations,
                   weights, bestCandidates, lastCycle, result, cache, now,
                   searches, service, args>>

NextCombos == Combine

SpecCombos == InitCombos /\ [][NextCombos]_vars

\* the total cost of the combination of options i, j and k of the arguments
combinationCost(i, j, k) ==
    args.transports[i].cost + args.transports[j].cost
    + args.accommodations[k].costPerNight * args.request.duration
    + SumSeq([a \in 1..Len(args.attrs) |-> args.attrs[a].entranceFee])

\* the indices the loops of generateValidCombinations run through
TransportIndices == 1..Min(Len(args.transports), 6)
AccommodationIndices == 1..Min(Len(args.accommodations), 3)

hasCandidate(i, j, k) ==
    \E c \in 1..Len(ret.candidates) : ret.candidates[c].id = <<i - 1, j - 1, k - 1>>

\* C9: every candidate of generateValidCombinations has totalCost <= 1.1 x
\* budget, its totalCost is the cost of the options it combines, and no
\* combination costing more than 1.1 x budget is in the output
C9_BudgetPruning ==
    pc = "combined" =>
        /\ \A c \in 1..Len(ret.candidates) :
              /\ 10 * ret.candidates[c].totalCost <= 11 * args.request.budget
              /\ \E i \in TransportIndices, j \in TransportIndices,
                    k \in AccommodationIndices :
                    /\ ret.candidates[c].id = <<i - 1, j - 1, k - 1>>
                    /\ ret.candidates[c].totalCost = combinationCost(i, j, k)
        /\ \A i \in TransportIndices, j \in TransportIndices, k \in AccommodationIndices :
              10 * combinationCost(i, j, k) > 11 * args.request.budget
                 => ~hasCandidate(i, j, k)

\* a candidate at exactly 1.1 x budget is kept while a dearer combination of
\* the same call is left out
C9_Witness ==
    /\ pc = "combined"
    /\ \E c \in 1..Len(ret.candidates) :
          10 * ret.candidates[c].totalCost = 11 * args.request.budget
    /\ \E i \in TransportIndices, j \in TransportIndices, k \in AccommodationIndices :
          /\ 10 * combinationCost(i, j, k) > 11 * args.request.budget
          /\ args.transports[j].departureTime - args.transports[i].arrivalTime
                >= args.request.duration * 720

\* C10: every candidate of generateValidCombinations has exactly the two legs
\* <<outbound, return>> of its indices, the return leg departs at least
\* duration x 12 hours after the outbound leg arrives, and a pair of legs with
\* a smaller or negative gap is in no candidate
C10_MinimumStay ==
    pc = "combined" =>
        /\ \A c \in 1..Len(ret.candidates) :
              LET legs == ret.candidates[c].transports
              IN  /\ Len(legs) = 2
                  /\ legs[1] = args.transports[ret.candidates[c].id[1] + 1]
                  /\ legs[2] = args.transports[ret.candidates[c].id[2] + 1]
                  /\ legs[2].departureTime - legs[1].arrivalTime
                        >= args.request.duration * 12 * 60
        /\ \A i \in TransportIndices, j \in TransportIndices, k \in AccommodationIndices :
              args.transports[j].departureTime - args.transports[i].arrivalTime
                    < args.request.duration * 12 * 60
                 => ~hasCandidate(i, j, k)

\* a candidate whose gap is exactly 12 hours for one day, next to an
\* affordable pair of the same call that is left out for its negative gap
C10_Witness ==
    /\ pc = "combined"
    /\ args.request.duration = 1
    /\ \E c \in 1..Len(ret.candidates) :
          ret.candidates[c].transports[2].departureTime
            - ret.candidates[c].transports[1].arrivalTime = 720
    /\ \E i \in TransportIndices, j \in TransportIndices, k \in AccommodationIndices :
          /\ args.transports[j].departureTime < args.transports[i].arrivalTime
          /\ 10 * combinationCost(i, j, k) <= 11 * args.request.budget

-----------------------------------------------------------------------------
(* scoreAndRank of the enhanced service and of the backend as functions of
   a candidate batch, a request and the weights *)

\* the longest batch drawn
MaxBatch == 3

\* candidates as the combination step leaves them (score 0); the first two
\* differ only in their attraction tags, the last two cost more than the
\* larger budget
CandidatePool ==
    { [totalCost |-> 40000, totalDuration |-> 300, transports |-> <<"train", "train">>,
       accommodations |-> << [tags |-> <<"gaseongbi">>] >>,
       attractions |-> << [tags |-> <<"museum">>] >>, score |-> ZeroScore, id |-> 0],
      [totalCost |-> 40000, totalDuration |-> 300, transports |-> <<"train", "train">>,
       accommodations |-> << [tags |-> <<"gaseongbi">>] >>,
       attractions |-> << [tags |-> <<"parks">>] >>, score |-> ZeroScore, id |-> 0],
      [totalCost |-> 120000, totalDuration |-> 200, transports |-> <<"bus", "bus">>,
       accommodations |-> << [tags |-> <<"gaseongbi">>] >>,
       attractions |-> <<>>, score |-> ZeroScore, id |-> 0],
      [totalCost |-> 150000, totalDuration |-> 200, transports |-> <<"car", "car">>,
       accommodations |-> << [tags |-> <<"gaseongbi">>] >>,
       attractions |-> <<>>, score |-> ZeroScore, id |-> 0] }

\* the initial weights of both services, weights after the unclamped drift,
\* and weights far outside their nominal bounds, negative ones included
RankWeights ==
    { initialWeights,
      Backend_initialWeights,
      [cost |-> 28, time |-> 30, preference |-> 37, fatigue |-> 5],
      [cost |-> 300, time |-> 30, preference |-> 0 - 20, fatigue |-> 5],
      [cost |-> 0 - 50, time |-> 0 - 30, preference |-> 20, fatigue |-> 0] }

RankRequests ==
    { [departure |-> "CityA", destination |-> "CityB", duration |-> 2,
       budget |-> b, preferences |-> p] :
         b \in {1, 100000}, p \in {<<>>, <<"museum">>} }

\* the batches: every sequence of at most MaxBatch pool candidates, each
\* candidate carrying its position in the batch as its id
Batches ==
    { [i \in 1..Len(b) |-> [b[i] EXCEPT !.id = i]] :
        b \in {<<>>} \cup SeqsUpTo(CandidatePool, MaxBatch) }

InitRank ==
    /\ service \in {"enhanced", "backend"}
    /\ pc = "rank"
    /\ hasKey = FALSE
    /\ request = NoRequest
    /\ geo = <<Pending, Pending>>
    /\ routeInfo = NoRoute
    /\ attractions = <<>>
    /\ iterations = 0
    /\ weights = initialWeights
    /\ bestCandidates = <<>>
    /\ lastCycle = NoCycle
    /\ result = NoResult
    /\ cache = <<>>
    /\ now = 0
    /\ searches = 0
    /\ args \in [op : {"scoreAndRank"}, candidates : Batches,
                 request : RankRequests, weights : RankWeights]
    /\ ret = NoArgs

Rank ==
    /\ pc = "rank"
    /\ ret' = [op |-> "scoreAndRank",
               candidates |->
                   IF service = "enhanced"
                   THEN scoreAndRank(args.candidates, args.request, args.weights)
                   ELSE Backend_scoreAndRank(args.candidates, args.request,
                                             args.weights)]
    /\ pc' = "ranked"
    /\ UNCHANGED <<hasKey, request, geo, routeInfo, attractions, iterations,
                   weights, bestCandidates, lastCycle, result, cache, now,
                   searches, service, args>>

NextRank == Rank

SpecRank == InitRank /\ [][NextRank]_vars

\* C11: the output of scoreAndRank is in non-increasing score order, holds
\* every candidate of the batch exactly once with nothing but its score
\* changed, and keeps candidates of equal score in their generation order
C11_RankingStablePermutation ==
    pc = "ranked" =>
        LET out == ret.candidates
            in == args.candidates
        IN  /\ Len(out) = Len(in)
            /\ {out[i].id : i \in 1..Len(out)} = 1..Len(in)
            /\ \A i \in 1..Len(out) : [out[i] EXCEPT !.score = ZeroScore] = in[out[i].id]
            /\ \A i \in 1..Len(out) : \A j \in 1..Len(out) :
                  i < j => /\ FracGE(out[i].score, out[j].score)
                           /\ (FracGE(out[j].score, out[i].score)
                                  => out[i].id < out[j].id)

\* a batch of three whose last candidate scores highest and whose first two
\* tie: the ranking moved the third to the front and kept the tie in order
C11_Witness ==
    /\ pc = "ranked" /\ Len(ret.candidates) = 3
    /\ ret.candidates[1].id = 3
    /\ ret.candidates[2].id = 1 /\ ret.candidates[3].id = 2
    /\ FracGT(ret.candidates[1].score, ret.candidates[2].score)
    /\ FracGE(ret.candidates[3].score, ret.candidates[2].score)

\* the empty batch is ranked to the empty list
C11_EmptyBatch ==
    pc = "ranked" /\ args.candidates = <<>> /\ ret.candidates = <<>>

\* C12: after a scoring pass every candidate's score is within [0, 1],
\* whatever the weights and the candidate's cost
C12_ScoreRange ==
    pc = "ranked" =>
        \A i \in 1..Len(ret.candidates) :
            /\ BigCmp(ret.candidates[i].score.den, <<>>) > 0
            /\ BigCmp(ret.candidates[i].score.num, <<>>) >= 0
            /\ BigCmp(ret.candidates[i].score.num, ret.candidates[i].score.den) <= 0

\* with a cost weight of 3 one candidate's weighted sum exceeds 1 and is held
\* at 1, while a candidate over the budget scores strictly between 0 and 1
C12_Witness ==
    /\ pc = "ranked" /\ args.weights.cost = 300 /\ Len(ret.candidates) >= 2
    /\ ret.candidates[1].score.num = ret.candidates[1].score.den
    /\ \E i \in 1..Len(ret.candidates) :
          /\ ret.candidates[i].score.num # <<>>
          /\ BigCmp(ret.candidates[i].score.num, ret.candidates[i].score.den) < 0

\* with negative weights the weighted sum is negative and the score is 0
C12_ClampedBelow ==
    /\ pc = "ranked" /\ args.weights.cost < 0
    /\ \E i \in 1..Len(ret.candidates) : ret.candidates[i].score.num = <<>>

\* the longest totalDuration of a batch
RECURSIVE maxObservedDuration(_)
maxObservedDuration(batch) ==
    IF batch = <<>> THEN 0
    ELSE Max(Head(batch).totalDuration, maxObservedDuration(Tail(batch)))

\* matched tags / all tags of a candidate: 1/2 without preference tags, 0 for
\* a candidate without tags
matchedTagShare(candidate, preferences) ==
    LET tags == Flatten(AsSeq([a \in 1..Len(candidate.accommodations) |->
                                 candidate.accommodations[a].tags]))
                \o Flatten(AsSeq([a \in 1..Len(candidate.attractions) |->
                                    candidate.attractions[a].tags]))
        matched == {t \in 1..Len(tags) : \E p \in 1..Len(preferences) :
                       includes(toLowerCase(tags[t]), toLowerCase(preferences[p]))}
    IN  IF Len(preferences) = 0 THEN [num |-> 1, den |-> 2]
        ELSE IF Len(tags) = 0 THEN [num |-> 0, den |-> 1]
        ELSE [num |-> Cardinality(matched), den |-> Len(tags)]

\* clamp(costScore * w.cost + timeScore * w.time + preferenceScore *
\* w.preference + fatigueScore * w.fatigue, 0, 1) with the four scores of the
\* stated formula, over the denominator budget * maxDuration * share.den * 1000
statedScore(candidate, batch, req, w) ==
    LET B == BigOf(req.budget)
        D == BigOf(maxObservedDuration(batch))
        share == matchedTagShare(candidate, req.preferences)
        costNum == BigOf(Max(0, req.budget - candidate.totalCost))
        timeNum == BigOf(maxObservedDuration(batch) - candidate.totalDuration)
        fatigueNum == Max(0, 10 - Len(candidate.transports))
        den == BigMulSmall(BigMul(B, D), 1000 * share.den)
        sum == SignedAddTerm(
                 SignedAddTerm(
                   SignedAddTerm(
                     SignedAddTerm(SignedZero, w.cost,
                                   BigMulSmall(BigMul(costNum, D), 10 * share.den)),
                     w.time, BigMulSmall(BigMul(B, timeNum), 10 * share.den)),
                   w.preference, BigMulSmall(BigMul(B, D), 10 * share.num)),
                 w.fatigue, BigMulSmall(BigMul(B, D), fatigueNum * share.den))
    IN  ClampUnit(sum, den)

\* C25: the score the enhanced scoreAndRank assigns is the clamped weighted
\* sum of costScore = clamp(1 - totalCost / budget), timeScore = clamp(1 -
\* totalDuration / longest duration of the batch), preferenceScore = matched
\* tags / all tags and fatigueScore = clamp(1 - legs / 10)
C25_ScoringFormula ==
    (pc = "ranked" /\ service = "enhanced") =>
        \A i \in 1..Len(ret.candidates) :
            LET stated == statedScore(ret.candidates[i], args.candidates,
                                      args.request, args.weights)
            IN  BigCmp(BigMul(ret.candidates[i].score.num, stated.den),
                       BigMul(stated.num, ret.candidates[i].score.den)) = 0

-----------------------------------------------------------------------------
(* APICache under any sequence of its operations, with time advancing *)

\* the number of steps the clock takes
MaxCacheTicks == 3

\* the clock advances by half the default TTL, so that a read falls exactly
\* on an expiry time as well as before and after it
CacheTickStep == DefaultTTL \div 2

\* the ttl arguments: omitted (written 0) and half an hour
CacheTTLs == {0, DefaultTTL \div 2}

CacheKeys == { cacheKey("geocode", <<"CityA">>, <<>>),
               cacheKey("route", <<"CityA", "CityB">>, <<>>) }

CacheData == { [kind |-> "d1"], [kind |-> "d2"] }

NoEntry == [data |-> NoValue, timestamp |-> 0, expiresAt |-> 0]

\* what the last operation was and returned: for a read, the entry that was
\* under the key when it was called (had = FALSE and NoEntry when none was)
NoOp == [op |-> "none", key |-> "", ttl |-> 0, had |-> FALSE, entry |-> NoEntry,
         value |-> NoValue, at |-> 0]

InitCache ==
    /\ service = "enhanced"
    /\ pc = "cache"
    /\ hasKey = FALSE
    /\ request = NoRequest
    /\ geo = <<Pending, Pending>>
    /\ routeInfo = NoRoute
    /\ attractions = <<>>
    /\ iterations = 0
    /\ weights = initialWeights
    /\ bestCandidates = <<>>
    /\ lastCycle = NoCycle
    /\ result = NoResult
    /\ cache = <<>>
    /\ now = 0
    /\ searches = 0
    /\ args = NoArgs
    /\ ret = NoOp

cacheFrame == <<service, hasKey, request, geo, routeInfo, attractions, iterations,
                weights, bestCandidates, lastCycle, result, searches>>

\* APICache.set(prefix, params, data, ttl)
CacheSet(key, data, ttl) ==
    /\ pc \in {"cache", "fetching"}
    /\ cache' = cacheSet(cache, key, data, ttl, now)
    /\ ret' = [NoOp EXCEPT !.op = "set", !.key = key, !.ttl = ttl, !.at = now]
    /\ UNCHANGED <<cacheFrame, pc, now, args>>

\* the entry under key and whether there is one
readEntry(c, key) ==
    IF key \in DOMAIN c THEN [had |-> TRUE, entry |-> c[key]]
    ELSE [had |-> FALSE, entry |-> NoEntry]

\* APICache.get(prefix, params)
CacheGet(key) ==
    /\ pc \in {"cache", "fetching"}
    /\ LET got == cacheGet(cache, key, now)
       IN  /\ cache' = got[2]
           /\ ret' = [NoOp EXCEPT !.op = "get", !.key = key,
                                  !.had = readEntry(cache, key).had,
                                  !.entry = readEntry(cache, key).entry,
                                  !.value = got[1], !.at = now]
    /\ UNCHANGED <<cacheFrame, pc, now, args>>

\* APICache.cleanup(), also run by the interval timer
CacheCleanup ==
    /\ pc \in {"cache", "fetching"}
    /\ cache' = cacheCleanup(cache, now)
    /\ ret' = [NoOp EXCEPT !.op = "cleanup", !.at = now]
    /\ UNCHANGED <<cacheFrame, pc, now, args>>

\* APICache.clear(prefix)
CacheClear(prefix) ==
    /\ pc \in {"cache", "fetching"}
    /\ cache' = cacheClear(cache, prefix)
    /\ ret' = [NoOp EXCEPT !.op = "clear", !.at = now]
    /\ UNCHANGED <<cacheFrame, pc, now, args>>

\* APICache.withCache up to its await: the read, and on a miss the fetcher
\* is called
WithCacheCall(key, ttl) ==
    /\ pc = "cache"
    /\ LET got == cacheGet(cache, key, now)
       IN  /\ cache' = got[2]
           /\ ret' = [NoOp EXCEPT !.op = "withCache", !.key = key,
                                  !.had = readEntry(cache, key).had,
                                  !.entry = readEntry(cache, key).entry,
                                  !.value = got[1], !.at = now]
           /\ IF got[1] # NoValue
              THEN pc' = "cache" /\ args' = args
              ELSE pc' = "fetching" /\ args' = [op |-> "withCache", key |-> key,
                                                ttl |-> ttl]
    /\ UNCHANGED <<cacheFrame, now>>

\* the fetcher of the pending withCache call resolves and its data is stored;
\* the data may be null (NoValue), as that of a geocode fetcher without a match
WithCacheResolve(data) ==
    /\ pc = "fetching"
    /\ cache' = cacheSet(cache, args.key, data, args.ttl, now)
    /\ ret' = [NoOp EXCEPT !.op = "set", !.key = args.key, !.ttl = args.ttl,
                           !.at = now]
    /\ pc' = "cache"
    /\ args' = NoArgs
    /\ UNCHANGED <<cacheFrame, now>>

\* the fetcher of the pending withCache call rejects: nothing is stored
WithCacheReject ==
    /\ pc = "fetching"
    /\ pc' = "cache"
    /\ args' = NoArgs
    /\ ret' = [NoOp EXCEPT !.op = "rejected", !.at = now]
    /\ UNCHANGED <<cacheFrame, cache, now>>

\* Date.now() advances
CacheTick ==
    /\ pc \in {"cache", "fetching"}
    /\ now < MaxCacheTicks * CacheTickStep
    /\ now' = now + CacheTickStep
    /\ UNCHANGED <<cacheFrame, pc, cache, args, ret>>

NextCache ==
    \/ \E key \in CacheKeys, data \in CacheData, ttl \in CacheTTLs :
          CacheSet(key, data, ttl)
    \/ \E key \in CacheKeys : CacheGet(key)
    \/ CacheCleanup
    \/ \E prefix \in {"", "geo", "route"} : CacheClear(prefix)
    \/ \E key \in CacheKeys, ttl \in CacheTTLs : WithCacheCall(key, ttl)
    \/ \E data \in CacheData \cup {NoValue} : WithCacheResolve(data)
    \/ WithCacheReject
    \/ CacheTick

SpecCache == InitCache /\ [][NextCache]_vars

\* C16: a read never returns the data of an entry whose expiry time is
\* earlier than the time of the read; a read that finds an expired entry
\* removes it and reports a miss; a read that finds an entry not yet expired
\* returns its data; and an entry written without a ttl expires 3600000 ms
\* (one hour) after it was written
C16_CacheExpiry ==
    /\ (ret.op \in {"get", "withCache"} /\ ret.value # NoValue) =>
          /\ ret.had
          /\ ret.entry.expiresAt >= ret.at
          /\ ret.value = ret.entry.data
    /\ (ret.op \in {"get", "withCache"} /\ ret.had /\ ret.at > ret.entry.expiresAt) =>
          /\ ret.value = NoValue
          /\ ret.key \notin DOMAIN cache
    /\ (ret.op \in {"get", "withCache"} /\ ret.had /\ ret.at <= ret.entry.expiresAt) =>
          /\ ret.value = ret.entry.data
          /\ ret.key \in DOMAIN cache /\ cache[ret.key] = ret.entry
    /\ (ret.op = "set" /\ ret.ttl = 0) =>
          /\ cache[ret.key].timestamp = ret.at
          /\ cache[ret.key].expiresAt = ret.at + 3600000
    /\ \A k \in DOMAIN cache : cache[k].timestamp <= now

\* an entry written without a ttl is read one tick after its hour has
\* passed: the read misses and the entry is gone
C16_Witness ==
    /\ ret.op = "get" /\ ret.had
    /\ ret.entry.expiresAt = ret.entry.timestamp + 3600000
    /\ ret.at = ret.entry.expiresAt + CacheTickStep
    /\ ret.value = NoValue
    /\ ret.key \notin DOMAIN cache

\* the same entry read exactly at its expiry time is still served
C16_ServedAtExpiry ==
    /\ ret.op = "get" /\ ret.had
    /\ ret.entry.expiresAt = ret.entry.timestamp + 3600000
    /\ ret.at = ret.entry.expiresAt
    /\ ret.value = ret.entry.data /\ ret.value # NoValue

\* C24: for every candidate of generateValidCombinations, breakdown.attractions
\* is the sum of the entrance fees of the attractions in candidate.attractions,
\* and totalDuration is the sum of the durations of the legs in
\* candidate.transports and of the attractions in candidate.attractions
C24_CandidateMatchesOwnLists ==
    pc = "combined" =>
        \A c \in 1..Len(ret.candidates) :
            LET candidate == ret.candidates[c]
                own == candidate.attractions
                legs == candidate.transports
            IN  /\ candidate.breakdown.attractions =
                      SumSeq(AsSeq([a \in 1..Len(own) |-> own[a].entranceFee]))
                /\ candidate.totalDuration =
                      SumSeq(AsSeq([l \in 1..Len(legs) |-> legs[l].duration]))
                      + SumSeq(AsSeq([a \in 1..Len(own) |-> own[a].duration]))

\* C29: a withCache call that finds an entry stored for its key and not yet
\* expired returns the stored result and does not invoke the fetcher,
\* whatever the stored result is, a null result included
C29_HitAfterFetch ==
    (ret.op = "withCache" /\ ret.had /\ ret.at <= ret.entry.expiresAt) =>
        /\ pc # "fetching"
        /\ ret.value = ret.entry.data

-----------------------------------------------------------------------------
(* smartRouteCalculation on its own: both places are resolved, the route is
   not cached, and args holds what each routing source answers when asked
   (NoValue: the source is unavailable and its wrapper returns null) *)

InitRoute ==
    /\ service = "enhanced"
    /\ pc = "route"
    /\ hasKey \in BOOLEAN
    /\ request \in Requests
    /\ geo = <<[state |-> "resolved", value |-> Coordinates(request.departure)],
               [state |-> "resolved", value |-> Coordinates(request.destination)]>>
    /\ routeInfo = NoRoute
    /\ attractions = <<>>
    /\ iterations = 0
    /\ weights = initialWeights
    /\ bestCandidates = <<>>
    /\ lastCycle = NoCycle
    /\ result = NoResult
    /\ cache = cacheSet(cacheSet(<<>>, cacheKey("geocode", <<request.departure>>, <<>>),
                                 Coordinates(request.departure), DefaultTTL, 0),
                        cacheKey("geocode", <<request.destination>>, <<>>),
                        Coordinates(request.destination), DefaultTTL, 0)
    /\ now = 0
    /\ searches = 1
    /\ args \in [op : {"smartRouteCalculation"},
                 google : RouteAnswers \cup {NoValue},
                 ors : RouteAnswers \cup {NoValue}]
    /\ ret = NoArgs

NextRoute ==
    \/ RouteReturn(args.google, args.ors)
    \/ AttractionLookup

SpecRoute == InitRoute /\ [][NextRoute]_vars

C18_State ==
    /\ pc \in {"route", "routed", "attractions", "loop"}
    /\ pc # "route" =>
          LET google == args.google
              ors == args.ors
              haversine == calculateDistance(geo[1].value.lat, geo[1].value.lon,
                                             geo[2].value.lat, geo[2].value.lon)
          IN  CASE hasKey /\ google # NoValue ->
                      /\ routeInfo.distance = google.distance
                      /\ routeInfo.duration = Round(google.duration, 60)
                [] ~(hasKey /\ google # NoValue) /\ ors # NoValue ->
                      /\ routeInfo.distance = ors.distance
                      /\ routeInfo.duration = Round(ors.duration, 60)
                [] OTHER ->
                      /\ routeInfo.distance * 10 = haversine * 13
                      /\ routeInfo.duration = Round(routeInfo.distance * 60, 80)

C18_Step ==
    pc = "route" =>
        /\ pc' = "routed"
        /\ result' = result
        /\ routeInfo'.distance \in Nat /\ routeInfo'.duration \in Nat

\* C18: smartRouteCalculation always yields a distance and a duration: those
\* of Google Directions when a key is configured and it answers, else those
\* of OpenRouteService when it answers, else haversine x 1.3 with the minutes
\* of that distance at 80 km/h; the search goes on to the attractions and
\* never fails there
C18_RouteFallback ==
    /\ []C18_State
    /\ [][C18_Step]_vars

\* every routing source is unavailable and the search went on with the
\* estimate for 300 km of haversine distance
C18_Witness ==
    /\ pc \in {"attractions", "loop"}
    /\ hasKey /\ args.google = NoValue /\ args.ors = NoValue
    /\ routeInfo = [distance |-> 390, duration |-> 293]

\* Google Directions would answer but no key is configured: OpenRouteService
\* is the source
C18_NoKey ==
    /\ pc = "routed"
    /\ ~hasKey /\ args.google # NoValue /\ args.ors # NoValue
    /\ args.google # args.ors
    /\ routeInfo.distance = args.ors.distance

-----------------------------------------------------------------------------
(* TSPOptimizer.  An order is a tuple of 0-based indices into allCities, as
   in the source; a matrix is a tuple of rows. *)

\* TSPOptimizer.buildDistanceMatrix
buildDistanceMatrix(cities) ==
    AsSeq([i \in 1..Len(cities) |->
        AsSeq([j \in 1..Len(cities) |->
            IF i = j THEN 0
            ELSE LET a == cities[Min(i, j)]
                     b == cities[Max(i, j)]
                 IN  calculateDistance(a.coords.lat, a.coords.lon,
                                       b.coords.lat, b.coords.lon)])])

\* TSPOptimizer.calculateTotalDistance
calculateTotalDistance(order, distMatrix) ==
    SumSeq(AsSeq([i \in 1..(Len(order) - 1) |->
                    distMatrix[order[i] + 1][order[i + 1] + 1]]))

\* [...slice(0, i), ...slice(i, j + 1).reverse(), ...slice(j + 1)], i and j 0-based
reverseSegment(order, i, j) ==
    AsSeq([k \in 1..Len(order) |->
             IF k >= i + 1 /\ k <= j + 1 THEN order[(i + 1) + (j + 1) - k]
             ELSE order[k]])

\* the two for loops of twoOptImprovement from (i, j) on: one pass over the
\* segments, each tried on the best order found so far
RECURSIVE twoOptPass(_, _, _, _, _)
twoOptPass(bestOrder, distMatrix, i, j, improved) ==
    IF i >= Len(bestOrder) - 2
    THEN [order |-> bestOrder, improved |-> improved]
    ELSE IF j >= Len(bestOrder) - 1
    THEN twoOptPass(bestOrder, distMatrix, i + 1, i + 2, improved)
    ELSE LET newOrder == reverseSegment(bestOrder, i, j)
             newDistance == calculateTotalDistance(newOrder, distMatrix)
             bestDistance == calculateTotalDistance(bestOrder, distMatrix)
         IN  IF newDistance < bestDistance
             THEN twoOptPass(newOrder, distMatrix, i, j + 1, TRUE)
             ELSE twoOptPass(bestOrder, distMatrix, i, j + 1, improved)

\* variant of twoOptImprovement that makes one pass only
twoOptImprovement_OnePass(order, distMatrix) ==
    twoOptPass(order, distMatrix, 1, 2, FALSE).order

\* TSPOptimizer.twoOptImprovement: passes are repeated while one improved
RECURSIVE twoOptImprovement(_, _)
twoOptImprovement(order, distMatrix) ==
    LET pass == twoOptPass(order, distMatrix, 1, 2, FALSE)
    IN  IF pass.improved THEN twoOptImprovement(pass.order, distMatrix)
        ELSE pass.order

\* the while loop of nearestNeighbor
RECURSIVE nearestNeighborLoop(_, _, _, _, _)
nearestNeighborLoop(visited, order, current, endIdx, distMatrix) ==
    LET n == Len(distMatrix)
        open == {i \in 0..(n - 1) : i # endIdx /\ i \notin visited}
    IN  IF Cardinality(visited) >= n - 1 \/ open = {}
        THEN order
        ELSE LET nearest ==
                     CHOOSE i \in open : \A k \in open :
                         \/ distMatrix[current + 1][i + 1] < distMatrix[current + 1][k + 1]
                         \/ /\ distMatrix[current + 1][i + 1] = distMatrix[current + 1][k + 1]
                            /\ i <= k
             IN  nearestNeighborLoop(visited \cup {nearest}, Append(order, nearest),
                                     nearest, endIdx, distMatrix)

\* TSPOptimizer.nearestNeighbor
nearestNeighbor(startIdx, endIdx, distMatrix) ==
    Append(nearestNeighborLoop({startIdx}, <<startIdx>>, startIdx, endIdx, distMatrix),
           endIdx)

\* city.priority || 5: an absent priority and the priority 0 both read as 5
priorityOf(city) == IF city.priority = 0 THEN 5 ELSE city.priority

\* step 3 of optimize: the middle of the order, sorted by priority descending
priorityOrder(order, allCities) ==
    LET middleOrder == SubSeq(order, 2, Len(order) - 1)
        sorted == StableSort(middleOrder,
                      LAMBDA a, b : priorityOf(allCities[a + 1]) > priorityOf(allCities[b + 1]))
    IN  <<order[1]>> \o sorted \o <<order[Len(order)]>>

\* variant of optimize without the shortcut for small inputs
optimize_NoShortcut(cities, startCity, endCity) ==
    LET allCities == <<startCity>> \o cities \o <<endCity>>
        distMatrix == buildDistanceMatrix(allCities)
        finalOrder == twoOptImprovement(
                          nearestNeighbor(0, Len(allCities) - 1, distMatrix), distMatrix)
    IN  [cities |-> AsSeq([k \in 1..Len(finalOrder) |-> allCities[finalOrder[k] + 1]]),
         totalDistance |-> calculateTotalDistance(finalOrder, distMatrix),
         order |-> finalOrder]

\* TSPOptimizer.optimize
optimize(cities, startCity, endCity) ==
    IF Len(cities) <= 2
    THEN [cities |-> <<startCity, endCity>>,
          totalDistance |-> calculateDistance(startCity.coords.lat, startCity.coords.lon,
                                              endCity.coords.lat, endCity.coords.lon),
          order |-> <<0, 1>>]
    ELSE LET allCities == <<startCity>> \o cities \o <<endCity>>
             distMatrix == buildDistanceMatrix(allCities)
             startIdx == 0
             endIdx == Len(allCities) - 1
             order == twoOptImprovement(
                          nearestNeighbor(startIdx, endIdx, distMatrix), distMatrix)
             finalOrder == priorityOrder(order, allCities)
         IN  [cities |-> AsSeq([k \in 1..Len(finalOrder) |-> allCities[finalOrder[k] + 1]]),
              totalDistance |-> calculateTotalDistance(finalOrder, distMatrix),
              order |-> finalOrder]

-----------------------------------------------------------------------------
(* TSPOptimizer.optimize on its own: args holds the arguments of one call,
   ret what it returned *)

MaxWaypoints == 3

cityAt(lon, priority) ==
    [id |-> lon, coords |-> [lat |-> 35, lon |-> lon], priority |-> priority]

\* waypoints on the 35th parallel; priority 0 is a city without a priority
Waypoints == {cityAt(lon, priority) : lon \in 127..130, priority \in {0, 9}}

WaypointLists == UNION {[1..n -> Waypoints] : n \in 0..MaxWaypoints}

\* a one-way tour and a round trip
Endpoints == {<<cityAt(126, 0), cityAt(131, 0)>>, <<cityAt(129, 0), cityAt(129, 0)>>}

InitTour ==
    /\ service = "tsp"
    /\ pc = "optimize"
    /\ hasKey = FALSE
    /\ request = NoRequest
    /\ geo = <<Pending, Pending>>
    /\ routeInfo = NoRoute
    /\ attractions = <<>>
    /\ iterations = 0
    /\ weights = initialWeights
    /\ bestCandidates = <<>>
    /\ lastCycle = NoCycle
    /\ result = NoResult
    /\ cache = <<>>
    /\ now = 0
    /\ searches = 0
    /\ \E cities \in WaypointLists, ends \in Endpoints :
          args = [op |-> "optimize", cities |-> AsSeq(cities),
                  startCity |-> ends[1], endCity |-> ends[2]]
    /\ ret = NoArgs

Optimize ==
    /\ pc = "optimize"
    /\ ret' = optimize(args.cities, args.startCity, args.endCity)
    /\ pc' = "optimized"
    /\ UNCHANGED <<service, hasKey, request, geo, routeInfo, attractions, iterations,
                   weights, bestCandidates, lastCycle, result, cache, now, searches,
                   args>>

NextTour == Optimize

SpecTour == InitTour /\ [][NextTour]_vars

\* C19: for 0 or 1 waypoints optimize returns exactly the order [start, end],
\* and the total distance it reports is the direct start-to-end distance
C19_SmallInputs ==
    (pc = "optimized" /\ Len(args.cities) <= 1) =>
        /\ ret.cities = <<args.startCity, args.endCity>>
        /\ ret.order = <<0, 1>>
        /\ ret.totalDistance =
              91 * (args.endCity.coords.lon - args.startCity.coords.lon)

\* one waypoint, off the way of a round trip: the tour is start, end and its
\* length is 0
C19_Witness ==
    /\ pc = "optimized"
    /\ Len(args.cities) = 1
    /\ args.cities[1].coords.lon = 127
    /\ args.startCity = args.endCity
    /\ ret.order = <<0, 1>> /\ ret.totalDistance = 0

\* the order the 2-opt step of the call in args produced
twoOptOrder ==
    LET allCities == <<args.startCity>> \o args.cities \o <<args.endCity>>
        distMatrix == buildDistanceMatrix(allCities)
    IN  twoOptImprovement(nearestNeighbor(0, Len(allCities) - 1, distMatrix), distMatrix)

\* C20: for three or more waypoints with any priorities, the total distance of
\* the order optimize returns does not exceed the total distance of the order
\* its 2-opt step produced
C20_PriorityTieBreak ==
    (pc = "optimized" /\ Len(args.cities) >= 3) =>
        ret.totalDistance <=
            calculateTotalDistance(twoOptOrder,
                buildDistanceMatrix(<<args.startCity>> \o args.cities \o <<args.endCity>>))

\* C27: for two or more waypoints the order optimize returns starts at the
\* fixed start, ends at the fixed end and holds every waypoint exactly once
\* between them, and totalDistance is the sum of the distances along it
C27_TourCompleteness ==
    (pc = "optimized" /\ Len(args.cities) >= 2) =>
        LET allCities == <<args.startCity>> \o args.cities \o <<args.endCity>>
            n == Len(allCities)
        IN  /\ Len(ret.order) = n
            /\ ret.order[1] = 0
            /\ ret.order[Len(ret.order)] = n - 1
            /\ \A idx \in 0..(n - 1) :
                  Cardinality({k \in 1..Len(ret.order) : ret.order[k] = idx}) = 1
            /\ ret.cities = AsSeq([k \in 1..Len(ret.order) |-> allCities[ret.order[k] + 1]])
            /\ ret.totalDistance =
                  SumSeq(AsSeq([k \in 1..(Len(ret.cities) - 1) |->
                      LET a == ret.cities[k].coords.lon
                          b == ret.cities[k + 1].coords.lon
                      IN  91 * (IF a >= b THEN a - b ELSE b - a)]))

-----------------------------------------------------------------------------
(* TSPOptimizer.optimizeWithTimeConstraints.  Hours are compared as
   kilometres at 80 km/h: distance / 80 + stay <= max is
   distance + 80 * stay <= 80 * max. *)

\* city.minStayHours || 2: an absent stay and the stay 0 both read as 2
stayOf(city) == IF city.minStayHours = 0 THEN 2 ELSE city.minStayHours

\* variant of tourFits that counts the travel time only
tourFits_TravelOnly(route, maxTotalHours) ==
    route.totalDistance <= 80 * maxTotalHours

\* travelTimeHours + stayTimeHours <= maxTotalHours, the stays being those of
\* route.cities.slice(1, -1)
tourFits(route, maxTotalHours) ==
    LET stops == SubSeq(route.cities, 2, Len(route.cities) - 1)
        stayTimeHours == SumSeq(AsSeq([k \in 1..Len(stops) |-> stayOf(stops[k])]))
    IN  route.totalDistance + 80 * stayTimeHours <= 80 * maxTotalHours

\* cities.sort((a, b) => (b.priority || 5) - (a.priority || 5)): the array
\* itself, sorted in place
sortByPriority(cities) ==
    StableSort(cities, LAMBDA a, b : priorityOf(a) > priorityOf(b))

\* the for loop of optimizeWithTimeConstraints, from index i down to 0
RECURSIVE reduceLoop(_, _, _, _, _)
reduceLoop(sortedCities, i, startCity, endCity, maxTotalHours) ==
    IF i < 0 THEN NoValue
    ELSE LET reducedCities == Slice(sortedCities, i + 1)
             reducedResult == optimize(reducedCities, startCity, endCity)
         IN  IF tourFits(reducedResult, maxTotalHours)
             THEN reducedResult
             ELSE reduceLoop(sortedCities, i - 1, startCity, endCity, maxTotalHours)

\* TSPOptimizer.optimizeWithTimeConstraints: what it returns (NoValue is null)
\* and the caller's array after the call
optimizeWithTimeConstraints(cities, startCity, endCity, maxTotalHours) ==
    LET baseResult == optimize(cities, startCity, endCity)
    IN  IF ~tourFits(baseResult, maxTotalHours)
        THEN LET sortedCities == sortByPriority(cities)
             IN  [route |-> reduceLoop(sortedCities, Len(sortedCities) - 1,
                                       startCity, endCity, maxTotalHours),
                  cities |-> sortedCities]
        ELSE [route |-> baseResult, cities |-> cities]

MaxStops == 4

stopAt(lon, priority, minStayHours) ==
    [id |-> lon, coords |-> [lat |-> 35, lon |-> lon], priority |-> priority,
     minStayHours |-> minStayHours]

\* stops on the 35th parallel; 0 is an absent priority or stay
Stops == {stopAt(127, 3, 1), stopAt(128, 9, 0), stopAt(129, 0, 1), stopAt(130, 9, 3)}

StopLists == UNION {[1..n -> Stops] : n \in 0..MaxStops}

StopEndpoints == {<<stopAt(126, 0, 0), stopAt(131, 0, 0)>>,
                  <<stopAt(129, 0, 0), stopAt(129, 0, 0)>>}

HourBudgets == {5, 7, 10, 14}

InitTimeTour ==
    /\ service = "tsp"
    /\ pc = "optimizeWithTimeConstraints"
    /\ hasKey = FALSE
    /\ request = NoRequest
    /\ geo = <<Pending, Pending>>
    /\ routeInfo = NoRoute
    /\ attractions = <<>>
    /\ iterations = 0
    /\ weights = initialWeights
    /\ bestCandidates = <<>>
    /\ lastCycle = NoCycle
    /\ result = NoResult
    /\ cache = <<>>
    /\ now = 0
    /\ searches = 0
    /\ \E cities \in StopLists, ends \in StopEndpoints, maxTotalHours \in HourBudgets :
          args = [op |-> "optimizeWithTimeConstraints", cities |-> AsSeq(cities),
                  startCity |-> ends[1], endCity |-> ends[2],
                  maxTotalHours |-> maxTotalHours]
    /\ ret = NoArgs

\* one call; args keeps the arguments as they were passed, ret.cities is the
\* caller's array when the call has returned
OptimizeWithTimeConstraints ==
    /\ pc = "optimizeWithTimeConstraints"
    /\ LET out == optimizeWithTimeConstraints(args.cities, args.startCity,
                                              args.endCity, args.maxTotalHours)
       IN  ret' = [op |-> "optimizeWithTimeConstraints", route |-> out.route,
                   cities |-> out.cities]
    /\ pc' = "returned"
    /\ UNCHANGED <<service, hasKey, request, geo, routeInfo, attractions, iterations,
                   weights, bestCandidates, lastCycle, result, cache, now, searches,
                   args>>

NextTimeTour == OptimizeWithTimeConstraints

SpecTimeTour == InitTimeTour /\ [][NextTimeTour]_vars

\* how often city occurs in the list s
occurrences(s, city) == Cardinality({k \in 1..Len(s) : s[k] = city})

\* the intermediate stops of a returned route
retained == SubSeq(ret.route.cities, 2, Len(ret.route.cities) - 1)

\* C21: every returned route satisfies totalDistance / 80 + the minimum stays
\* of its intermediate stops <= maxTotalHours; no retained waypoint has a
\* lower priority than a dropped one; null is returned only when the tour
\* with no waypoints exceeds the budget
C21_TimeBudgetedTour ==
    pc = "returned" =>
        IF ret.route = NoValue
        THEN 91 * (args.endCity.coords.lon - args.startCity.coords.lon)
                 > 80 * args.maxTotalHours
        ELSE /\ ret.route.totalDistance
                  + 80 * SumSeq(AsSeq([k \in 1..Len(retained) |->
                                         IF retained[k].minStayHours = 0 THEN 2
                                         ELSE retained[k].minStayHours]))
                     <= 80 * args.maxTotalHours
             /\ \A k \in 1..Len(retained) : \A d \in Stops :
                   occurrences(args.cities, d) > occurrences(retained, d) =>
                       priorityOf(retained[k]) >= priorityOf(d)

\* a reduced tour: the four waypoints do not fit, the three of highest
\* priority do
C21_Witness ==
    /\ pc = "returned"
    /\ ret.route # NoValue
    /\ Len(args.cities) = 4
    /\ Len(ret.route.cities) = 5

\* null: the direct tour alone takes longer than the budget
C21_Infeasible ==
    /\ pc = "returned"
    /\ ret.route = NoValue
    /\ Len(args.cities) > 0

\* C30: optimizeWithTimeConstraints leaves the caller's waypoint list as it
\* was, whether it returns the base tour, a reduced tour or null
C30_WaypointListUnchanged ==
    pc = "returned" => ret.cities = args.cities

-----------------------------------------------------------------------------
(* validateTimeConnection and validateTransportChain.  A time string is the
   minute it names; a Date is its getTime() in milliseconds. *)

\* new Date(isoString).getTime()
getTime(isoMinutes) == isoMinutes * 60000

\* variant of validateTimeConnection with an exclusive boundary
validateTimeConnection_Exclusive(transport1, transport2, minTransferMinutes) ==
    getTime(transport1.arrivalTime) + minTransferMinutes * 60000
        < getTime(transport2.departureTime)

validateTimeConnection(transport1, transport2, minTransferMinutes) ==
    LET arrival1 == getTime(transport1.arrivalTime)
        departure2 == getTime(transport2.departureTime)
        requiredDeparture == arrival1 + minTransferMinutes * 60000
    IN  requiredDeparture <= departure2

\* the for loop of validateTransportChain from index i (1-based) on
RECURSIVE validateTransportChainFrom(_, _, _)
validateTransportChainFrom(transports, minTransferMinutes, i) ==
    IF i >= Len(transports) THEN TRUE
    ELSE IF ~validateTimeConnection(transports[i], transports[i + 1], minTransferMinutes)
    THEN FALSE
    ELSE validateTransportChainFrom(transports, minTransferMinutes, i + 1)

validateTransportChain(transports, minTransferMinutes) ==
    validateTransportChainFrom(transports, minTransferMinutes, 1)

MaxLegs == 3

legOf(departureTime, arrivalTime) ==
    [id |-> 0, departureTime |-> departureTime, arrivalTime |-> arrivalTime]

\* legs of one day (departure, arrival), among them an arrival at 10:00 and
\* departures at 10:20 and 10:30
ChainLegs == {legOf(540, 600), legOf(580, 590), legOf(620, 680), legOf(630, 700),
              legOf(730, 800)}

LegChains == UNION {[1..n -> ChainLegs] : n \in 0..MaxLegs}

TransferMinutes == {0, 30, 45}

InitChain ==
    /\ service = "validation"
    /\ pc = "validateTransportChain"
    /\ hasKey = FALSE
    /\ request = NoRequest
    /\ geo = <<Pending, Pending>>
    /\ routeInfo = NoRoute
    /\ attractions = <<>>
    /\ iterations = 0
    /\ weights = initialWeights
    /\ bestCandidates = <<>>
    /\ lastCycle = NoCycle
    /\ result = NoResult
    /\ cache = <<>>
    /\ now = 0
    /\ searches = 0
    /\ \E legs \in LegChains, m \in TransferMinutes :
          args = [op |-> "validateTransportChain", transports |-> AsSeq(legs),
                  minTransferMinutes |-> m]
    /\ ret = NoArgs

ValidateTransportChain ==
    /\ pc = "validateTransportChain"
    /\ ret' = [op |-> "validateTransportChain",
               valid |-> validateTransportChain(args.transports, args.minTransferMinutes)]
    /\ pc' = "returned"
    /\ UNCHANGED <<service, hasKey, request, geo, routeInfo, attractions, iterations,
                   weights, bestCandidates, lastCycle, result, cache, now, searches,
                   args>>

NextChain == ValidateTransportChain

SpecChain == InitChain /\ [][NextChain]_vars

\* C22: validateTransportChain(legs, m) is true iff for every consecutive
\* pair of legs the earlier arrival plus m minutes is <= the later departure
\* (inclusive); a chain of zero or one leg is valid
C22_TransferValidation ==
    pc = "returned" =>
        /\ ret.valid <=>
              \A i \in 1..(Len(args.transports) - 1) :
                  args.transports[i].arrivalTime + args.minTransferMinutes
                      <= args.transports[i + 1].departureTime
        /\ Len(args.transports) <= 1 => ret.valid

\* arrival 10:00, departure 10:30, 30 minutes required: valid at the boundary
C22_Witness ==
    /\ pc = "returned"
    /\ args.minTransferMinutes = 30
    /\ Len(args.transports) = 2
    /\ args.transports[1].arrivalTime = 600
    /\ args.transports[2].departureTime = 630
    /\ ret.valid

\* arrival 10:00, departure 10:20, 30 minutes required: not valid
C22_GapTooShort ==
    /\ pc = "returned"
    /\ args.minTransferMinutes = 30
    /\ Len(args.transports) = 2
    /\ args.transports[1].arrivalTime = 600
    /\ args.transports[2].departureTime = 620
    /\ ~ret.valid

-----------------------------------------------------------------------------
(* calculateTransportCost on its own: one mode, two distances d1 <= d2 *)

\* kilometres around the discount tiers at 100, 300 and 500
CostDistances == {0, 50, 100, 101, 105, 300, 301, 340, 500, 501, 600}

InitCost ==
    /\ service = "cost"
    /\ pc = "calculateTransportCost"
    /\ hasKey = FALSE
    /\ request = NoRequest
    /\ geo = <<Pending, Pending>>
    /\ routeInfo = NoRoute
    /\ attractions = <<>>
    /\ iterations = 0
    /\ weights = initialWeights
    /\ bestCandidates = <<>>
    /\ lastCycle = NoCycle
    /\ result = NoResult
    /\ cache = <<>>
    /\ now = 0
    /\ searches = 0
    /\ \E mode \in TransportModes, d1 \in CostDistances, d2 \in CostDistances :
          /\ d1 <= d2
          /\ args = [op |-> "calculateTransportCost", mode |-> mode,
                     d1 |-> d1, d2 |-> d2]
    /\ ret = NoArgs

CalculateTransportCost ==
    /\ pc = "calculateTransportCost"
    /\ ret' = [op |-> "calculateTransportCost",
               cost1 |-> calculateTransportCost(args.d1, args.mode),
               cost2 |-> calculateTransportCost(args.d2, args.mode)]
    /\ pc' = "returned"
    /\ UNCHANGED <<service, hasKey, request, geo, routeInfo, attractions, iterations,
                   weights, bestCandidates, lastCycle, result, cache, now, searches,
                   args>>

NextCost == CalculateTransportCost

SpecCost == InitCost /\ [][NextCost]_vars

\* C23: for every mode and all distances 0 <= d1 <= d2 the transport cost of
\* d1 is <= the transport cost of d2, also across the tiers at 100, 300, 500 km
C23_CostMonotone ==
    pc = "returned" => ret.cost1 <= ret.cost2

-----------------------------------------------------------------------------
(* TSPOptimizer.twoOptImprovement on its own: args holds an initial tour and
   a distance matrix, here that of points of the plane, ret the tour returned *)

MaxTourLength == 6

\* the integer part of the square root
isqrt(n) == CHOOSE r \in 0..40 : r * r <= n /\ (r + 1) * (r + 1) > n

\* ten times the distance of two points of the plane, rounded down
planeDistance(a, b) ==
    isqrt(100 * ((a.x - b.x) * (a.x - b.x) + (a.y - b.y) * (a.y - b.y)))

planeMatrix(points) ==
    AsSeq([i \in 1..Len(points) |->
        AsSeq([j \in 1..Len(points) |-> planeDistance(points[i], points[j])])])

PlanePoints == {[x |-> 0, y |-> 0], [x |-> 0, y |-> 2], [x |-> 1, y |-> 0],
                [x |-> 1, y |-> 1], [x |-> 2, y |-> 0], [x |-> 0, y |-> 1]}

\* tours over different points: the first is the start, the last the end
PointLists ==
    UNION {{points \in [1..n -> PlanePoints] :
               \A i \in 1..n, j \in 1..n : i # j => points[i] # points[j]} :
           n \in 2..MaxTourLength}

\* the four-waypoint bowtie: the nearest-neighbour tour crosses itself
Bowtie == <<[x |-> 0, y |-> 0], [x |-> 0, y |-> 2], [x |-> 1, y |-> 0],
            [x |-> 1, y |-> 1], [x |-> 2, y |-> 0], [x |-> 0, y |-> 1]>>

InitTwoOpt ==
    /\ service = "tsp"
    /\ pc = "twoOptImprovement"
    /\ hasKey = FALSE
    /\ request = NoRequest
    /\ geo = <<Pending, Pending>>
    /\ routeInfo = NoRoute
    /\ attractions = <<>>
    /\ iterations = 0
    /\ weights = initialWeights
    /\ bestCandidates = <<>>
    /\ lastCycle = NoCycle
    /\ result = NoResult
    /\ cache = <<>>
    /\ now = 0
    /\ searches = 0
    /\ \E points \in PointLists, initial \in {"given", "nearestNeighbor"} :
          LET distMatrix == planeMatrix(AsSeq(points))
          IN  args = [op |-> "twoOptImprovement", points |-> AsSeq(points),
                      distMatrix |-> distMatrix,
                      order |-> IF initial = "given"
                                THEN AsSeq([k \in 1..Len(points) |-> k - 1])
                                ELSE nearestNeighbor(0, Len(points) - 1, distMatrix)]
    /\ ret = NoArgs

TwoOptImprovement ==
    /\ pc = "twoOptImprovement"
    /\ ret' = [op |-> "twoOptImprovement",
               order |-> twoOptImprovement(args.order, args.distMatrix)]
    /\ pc' = "returned"
    /\ UNCHANGED <<service, hasKey, request, geo, routeInfo, attractions, iterations,
                   weights, bestCandidates, lastCycle, result, cache, now, searches,
                   args>>

NextTwoOpt == TwoOptImprovement

SpecTwoOpt == InitTwoOpt /\ [][NextTwoOpt]_vars

\* the length of a tour under the matrix of the call in args
tourLength(order) ==
    SumSeq(AsSeq([k \in 1..(Len(order) - 1) |->
                    args.distMatrix[order[k] + 1][order[k + 1] + 1]]))

\* the tour with its positions i..j (1-based) in reverse
reversed(order, i, j) ==
    AsSeq([k \in 1..Len(order) |-> IF k >= i /\ k <= j THEN order[i + j - k] ELSE order[k]])

\* C26: twoOptImprovement returns (so it terminates) a tour that keeps the
\* first and the last position, is a permutation of the initial tour, is not
\* longer than it, and that no reversal of a contiguous interior segment
\* makes strictly shorter
C26_TwoOptRefinement ==
    pc = "returned" =>
        /\ Len(ret.order) = Len(args.order)
        /\ ret.order[1] = args.order[1]
        /\ ret.order[Len(ret.order)] = args.order[Len(args.order)]
        /\ \A v \in 0..(Len(args.order) - 1) :
              Cardinality({k \in 1..Len(ret.order) : ret.order[k] = v})
                  = Cardinality({k \in 1..Len(args.order) : args.order[k] = v})
        /\ tourLength(ret.order) <= tourLength(args.order)
        /\ \A i \in 2..(Len(ret.order) - 1), j \in 2..(Len(ret.order) - 1) :
              i < j => tourLength(reversed(ret.order, i, j)) >= tourLength(ret.order)

\* the bowtie: nearest neighbour gives the crossing tour 0, 2, 3, 1, 4, 5 of
\* length 8.4, 2-opt returns the uncrossed 0, 2, 4, 3, 1, 5 of length 5.8
C26_Witness ==
    /\ pc = "returned"
    /\ args.points = Bowtie
    /\ args.order = <<0, 2, 3, 1, 4, 5>> /\ tourLength(args.order) = 84
    /\ ret.order = <<0, 2, 4, 3, 1, 5>> /\ tourLength(ret.order) = 58

====
